---- MODULE Spec2Model ----
(***************************************************************************)
(* A model of dnsdialer.  Spec is the strategy engine: one invocation of    *)
(* Strategy.ResolveType (Race, Fallback, Consensus, Compare) over a        *)
(* configured resolver list.  SpecEq applies recordsEqual, the multiset    *)
(* equality on which Consensus and Compare depend, to bounded record       *)
(* lists.  Each specification moves the variables of its own component     *)
(* and leaves the others at rest.                                          *)
(***************************************************************************)
EXTENDS Integers, Sequences, FiniteSets, TLC

\* The largest resolver list the model configures.
MaxResolvers == 3

\* The longest record list handed to recordsEqual.
MaxLen == 2

\* The goroutines that call the connection pool concurrently.
MaxCallers == 2

\* The connections the pool's dials can create in one run.
MaxConns == 3

\* The largest size argument given to newConnPool.
MaxPoolSize == 1

\* The last instant of the clock, and the largest per-query timeout.
MaxTime == 2
MaxTimeout == 1

\* The largest cache size, and the largest TTL in a cache's configuration
\* or in a setIPs call.
MaxCacheSize == 1
MaxTTL == 2

\* newConnPool: the pool size used when the argument is not positive.
DefaultPoolSize == 4

(***************************************************************************)
(* Records and resolver outcomes.                                          *)
(***************************************************************************)

\* type Record struct { Type; Value; TTL }
Record(v, t) == [Type |-> "A", Value |-> v, TTL |-> t]

\* The record lists a resolver may answer with.  A successful resolve is
\* never empty (udpResolver.ResolveType reports "no records found").  The
\* lists differ by value, by TTL only, by length and by order only.
Responses ==
    { <<Record("1.1.1.1", 300)>>,
      <<Record("1.1.1.1", 600)>>,
      <<Record("2.2.2.2", 300)>>,
      <<Record("1.1.1.1", 300), Record("2.2.2.2", 300)>>,
      <<Record("2.2.2.2", 300), Record("1.1.1.1", 300)>> }

\* A nil []Record.
NilRecords == <<>>

\* A nil error.
NoErr == "<nil>"

\* The errors a failing resolver reports.
ResolverErrs == {"timeout", "server failure"}

\* The arguments of the one ResolveType call that is modelled.
Host == "example.com"
QType == "A"

\* What a resolver returns: records and a nil error, or nil and an error.
Outcomes ==
    [response : Responses, err : {NoErr}]
        \cup [response : {NilRecords}, err : ResolverErrs]

\* resolver.Name(): the server address.  Addresses are numbered; two
\* resolvers configured with the same address share a name.  Names are
\* enumerated up to renaming: resolver k is named as an earlier resolver
\* or takes the next unused name.
NameLists(n) ==
    { nm \in [1..n -> 1..n] :
        \A k \in 1..n :
            nm[k] <= 1 + Cardinality({nm[j] : j \in 1..(k - 1)}) }

\* Only Compare reads Name() for anything but a log field; the other
\* strategies are configured with distinct names.
NameListsFor(kind, n) ==
    IF kind = "Compare" THEN NameLists(n) ELSE {[k \in 1..n |-> k]}

\* The strategies: Race{}, Fallback{}, Consensus{MinAgreement, IgnoreTTL},
\* Compare{OnDiscrepancy, IgnoreTTL}.  OnDiscrepancy is TRUE when a
\* callback is set.
Strategies ==
    [kind : {"Race", "Fallback"}, MinAgreement : {0},
     IgnoreTTL : {FALSE}, OnDiscrepancy : {FALSE}]
        \cup [kind : {"Consensus"}, MinAgreement : (-1)..MaxResolvers,
              IgnoreTTL : BOOLEAN, OnDiscrepancy : {FALSE}]
        \cup [kind : {"Compare"}, MinAgreement : {0},
              IgnoreTTL : BOOLEAN, OnDiscrepancy : BOOLEAN]

\* m.ResolveType / udpResolver.ResolveType as the strategies see it.
ResolveType(r) == [records |-> r.response, err |-> r.err]

(***************************************************************************)
(* recordsEqual: multiset equality with a frequency map.                   *)
(***************************************************************************)

\* recordKey{value, ttl}, the ttl normalised to 0 under ignoreTTL.
recordKey(r, ignoreTTL) ==
    [value |-> r.Value, ttl |-> IF ignoreTTL THEN 0 ELSE r.TTL]

\* The frequency map built from slice a.
aMapOf(a, ignoreTTL) ==
    LET keys == {recordKey(a[j], ignoreTTL) : j \in DOMAIN a}
    IN  [k \in keys |->
            Cardinality({j \in DOMAIN a : recordKey(a[j], ignoreTTL) = k})]

\* A second loop that looks keys up without consuming their counts.
RECURSIVE consumeBNoDecrement(_, _, _, _)
consumeBNoDecrement(aMap, b, j, ignoreTTL) ==
    IF j > Len(b) THEN TRUE
    ELSE LET key == recordKey(b[j], ignoreTTL)
         IN  IF key \notin DOMAIN aMap \/ aMap[key] = 0 THEN FALSE
             ELSE consumeBNoDecrement(aMap, b, j + 1, ignoreTTL)

\* The second loop: every record of b decrements its key's count; a
\* missing key or a count of 0 ends the comparison with false.
RECURSIVE consumeB(_, _, _, _)
consumeB(aMap, b, j, ignoreTTL) ==
    IF j > Len(b) THEN TRUE
    ELSE LET key == recordKey(b[j], ignoreTTL)
         IN  IF key \notin DOMAIN aMap \/ aMap[key] = 0 THEN FALSE
             ELSE consumeB([aMap EXCEPT ![key] = @ - 1], b, j + 1, ignoreTTL)

\* A comparison that stops after the length fast path.
recordsEqualLengthOnly(a, b, ignoreTTL) == Len(a) = Len(b)

\* A comparison without the length fast path.
recordsEqualNoLengthCheck(a, b, ignoreTTL) ==
    consumeB(aMapOf(a, ignoreTTL), b, 1, ignoreTTL)

recordsEqual(a, b, ignoreTTL) ==
    IF Len(a) # Len(b) THEN FALSE
    ELSE consumeB(aMapOf(a, ignoreTTL), b, 1, ignoreTTL)

(***************************************************************************)
(* State.                                                                  *)
(***************************************************************************)

VARIABLES
    strategy,      \* the configured Strategy value
    resolvers,     \* the configured resolver list: [name, response, err]
    pc,            \* "call" before ResolveType, "loop" inside, "done" after
    i,             \* the loop index of the running strategy
    lastErr,       \* Race, Fallback: var lastErr error
    minAgreement,  \* Consensus: s.MinAgreement of the by-value receiver
    groups,        \* Consensus: var groups []resultGroup
    resultsMap,    \* Compare: results map[string][]Record
    first,         \* Compare: var first []Record
    allMatch,      \* Compare: allMatch
    results,       \* Race: the buffered channel of results
    tasks,         \* Race: one goroutine per resolver, "running" or "done"
    cancelled,     \* Race: whether the derived context is cancelled
    posted,        \* Race: every result sent on the channel, in send order
    queried,       \* the resolvers queried sequentially, in call order
    calls,         \* the OnDiscrepancy invocations, with their arguments
    ret,           \* what ResolveType returned: [records, err]
    eqA, eqB,      \* recordsEqual: the slices a and b
    eqIgnoreTTL,   \* recordsEqual: the flag ignoreTTL
    eqPc,          \* recordsEqual: "call", then "related", then "done"
    eqResult,      \* recordsEqual: what each call returned, by call
    size,          \* connPool.size
    closed,        \* connPool.closed
    conns,         \* connPool.conns: the buffered channel's queue
    chanClosed,    \* whether close(p.conns) has run
    mu,            \* connPool.mu: 0 when free, else the caller holding it
    connState,     \* each *net.UDPConn: "unborn", "open" or "closed"
    callerPc,      \* each caller's position inside Get, Put or Close
    held,          \* the connection each caller holds, 0 for none
    outcome,       \* each caller's last pool call and what it returned
    closeReturned, \* whether a Close that closed the pool has returned
    panicked,      \* whether a goroutine panicked (the program is dead)
    now,           \* time.Now()
    timeout,       \* udpResolver.timeout
    query,         \* each caller's udpResolver.ResolveType invocation
    enabled,       \* dnsCache.enabled
    minTTL,        \* dnsCache.minTTL
    maxTTL,        \* dnsCache.maxTTL
    cacheSize,     \* the size given to lru.NewLRU
    ipCache,       \* dnsCache.ipCache: its entries, most recently used first
    got,           \* the last getIPs call and what it returned
    dial,          \* the DialContext call in progress, or the last one
    look,          \* the lookup of that call: its goroutines and channel
    heap,          \* the []net.IP backing arrays allocated so far
    entryList,     \* the array the cache entry's ips field refers to
    callerLists,   \* the arrays a caller of lookupIPs or getIPs holds
    written,       \* the addresses extracted when the entry was written
    lastHit,       \* what the last cache hit returned
    dialer,        \* the Dialer that New is configuring
    applied        \* the options New has applied, in order

strategyVars ==
    <<strategy, resolvers, pc, i, lastErr, minAgreement, groups, resultsMap,
      first, allMatch, results, tasks, cancelled, posted, queried, calls, ret>>

eqVars == <<eqA, eqB, eqIgnoreTTL, eqPc, eqResult>>

poolVars ==
    <<size, closed, conns, chanClosed, mu, connState, callerPc, held, outcome,
      closeReturned, panicked>>

resolverVars == <<now, timeout, query>>

cacheVars == <<enabled, minTTL, maxTTL, cacheSize, ipCache, got>>

dialVars == <<dial, look>>

aliasVars == <<heap, entryList, callerLists, written, lastHit>>

\* The variables of the Dialer's own calls.
optionVars == <<dialer, applied>>

appVars == <<dialVars, aliasVars, optionVars>>

vars == <<strategyVars, eqVars, poolVars, resolverVars, cacheVars, appVars>>

\* The variables no strategy touches.
elsewhere == <<eqVars, poolVars, resolverVars, cacheVars, appVars>>

\* The variables recordsEqual does not touch.
outsideEq == <<strategyVars, poolVars, resolverVars, cacheVars, appVars>>

config == <<strategy, resolvers>>
raceVars == <<results, tasks, cancelled, posted>>
consensusVars == <<minAgreement, groups>>
compareVars == <<resultsMap, first, allMatch, calls>>

\* The empty map[string][]Record.
EmptyMap == [k \in {} |-> NilRecords]

\* The state of recordsEqual's variables while no call is modelled.
EqAtRest ==
    /\ eqA = <<>>
    /\ eqB = <<>>
    /\ eqIgnoreTTL = FALSE
    /\ eqPc = "rest"
    /\ eqResult = <<>>

Callers == 1..MaxCallers
ConnIds == 1..MaxConns

\* What a caller that has made no pool call has to show.
NoOutcome ==
    [op |-> "none", result |-> "none", conn |-> 0, afterClose |-> FALSE,
     full |-> FALSE]

\* newConnPool: a non-positive size becomes the default.
PoolSizeOf(sizeArg) == IF sizeArg <= 0 THEN DefaultPoolSize ELSE sizeArg

\* newConnPool(addr, timeout, sizeArg): an open pool with an empty queue.
newConnPool(sizeArg) ==
    /\ size = PoolSizeOf(sizeArg)
    /\ closed = FALSE
    /\ conns = <<>>
    /\ chanClosed = FALSE
    /\ mu = 0
    /\ connState = [c \in ConnIds |-> "unborn"]
    /\ callerPc = [p \in Callers |-> "idle"]
    /\ held = [p \in Callers |-> 0]
    /\ outcome = [p \in Callers |-> NoOutcome]
    /\ closeReturned = FALSE
    /\ panicked = FALSE

\* The pool's variables while no pool is modelled.
PoolAtRest ==
    /\ size = 0
    /\ closed = FALSE
    /\ conns = <<>>
    /\ chanClosed = FALSE
    /\ mu = 0
    /\ connState = <<>>
    /\ callerPc = <<>>
    /\ held = <<>>
    /\ outcome = <<>>
    /\ closeReturned = FALSE
    /\ panicked = FALSE

\* The resolver's variables while no query is modelled.
ResolverAtRest ==
    /\ now = 0
    /\ timeout = 0
    /\ query = <<>>

\* What getIPs has to show before its first call.
NoGet ==
    [host |-> "", at |-> 0, ips |-> <<>>, found |-> FALSE, expiresAt |-> 0,
     entry |-> <<>>]

\* The cache's variables while no cache is modelled.
CacheAtRest ==
    /\ enabled = FALSE
    /\ minTTL = 0
    /\ maxTTL = 0
    /\ cacheSize = 0
    /\ ipCache = <<>>
    /\ got = NoGet

\* A DialContext call that has not been made.
NoDial ==
    [pc |-> "idle", network |-> "", addr |-> "", host |-> "", port |-> "",
     cached |-> <<>>, ips |-> <<>>, filteredIPs |-> <<>>, dialed |-> <<>>,
     ttl |-> 0, strategyCalls |-> 0, reads |-> 0, setCalls |-> 0,
     before |-> <<>>, failedHost |-> "", missing |-> "", lastErr |-> NoErr,
     conn |-> "", err |-> NoErr]

\* A lookup that has not started.
NoLookup == [pending |-> {}, results |-> <<>>, allRecords |-> <<>>]

\* The Dialer's variables while no DialContext call is modelled.
DialerAtRest ==
    /\ dial = NoDial
    /\ look = NoLookup

\* The backing arrays while none is modelled.
AliasAtRest ==
    /\ heap = <<>>
    /\ entryList = 0
    /\ callerLists = {}
    /\ written = <<>>
    /\ lastHit = <<>>

\* New's variables while no construction is modelled.
OptionsAtRest ==
    /\ dialer = <<>>
    /\ applied = <<>>

AppAtRest == DialerAtRest /\ AliasAtRest /\ OptionsAtRest

Init ==
    /\ EqAtRest
    /\ PoolAtRest
    /\ ResolverAtRest
    /\ CacheAtRest
    /\ AppAtRest
    /\ strategy \in Strategies
    /\ \E n \in 0..MaxResolvers :
         \E nm \in NameListsFor(strategy.kind, n) :
           \E out \in [1..n -> Outcomes] :
             resolvers = [k \in 1..n |->
                            [name |-> nm[k], response |-> out[k].response,
                             err |-> out[k].err]]
    /\ pc = "call"
    /\ i = 0
    /\ lastErr = NoErr
    /\ minAgreement = strategy.MinAgreement
    /\ groups = <<>>
    /\ resultsMap = EmptyMap
    /\ first = NilRecords
    /\ allMatch = TRUE
    /\ results = <<>>
    /\ tasks = <<>>
    /\ cancelled = FALSE
    /\ posted = <<>>
    /\ queried = <<>>
    /\ calls = <<>>
    /\ ret = [records |-> NilRecords, err |-> NoErr]

(***************************************************************************)
(* Fallback.ResolveType                                                    *)
(***************************************************************************)

\* A range that visits the slice from its end.
RangeBackwards(k) == Len(resolvers) + 1 - k

\* `for _, res := range resolvers`: iteration k visits element k.
RangeResolvers(k) == k

\* An assignment that keeps the first error seen.
FallbackKeepFirstErr(prev, err) == IF prev = NoErr THEN err ELSE prev

\* lastErr = err
FallbackLastErr(prev, err) == err

\* var lastErr error, before the loop.
FallbackCall ==
    /\ strategy.kind = "Fallback"
    /\ pc = "call"
    /\ pc' = "loop"
    /\ i' = 1
    /\ lastErr' = NoErr
    /\ UNCHANGED <<config, elsewhere, raceVars, consensusVars, compareVars, queried, ret>>

\* One iteration of `for _, res := range resolvers`.
FallbackQuery ==
    /\ strategy.kind = "Fallback"
    /\ pc = "loop"
    /\ i <= Len(resolvers)
    /\ LET r == ResolveType(resolvers[RangeResolvers(i)])
       IN  /\ queried' = Append(queried, RangeResolvers(i))
           /\ IF r.err = NoErr
              THEN /\ ret' = [records |-> r.records, err |-> NoErr]
                   /\ pc' = "done"
                   /\ UNCHANGED <<i, lastErr>>
              ELSE /\ lastErr' = FallbackLastErr(lastErr, r.err)
                   /\ i' = i + 1
                   /\ UNCHANGED <<pc, ret>>
    /\ UNCHANGED <<config, elsewhere, raceVars, consensusVars, compareVars>>

\* return nil, lastErr
FallbackReturn ==
    /\ strategy.kind = "Fallback"
    /\ pc = "loop"
    /\ i > Len(resolvers)
    /\ ret' = [records |-> NilRecords, err |-> lastErr]
    /\ pc' = "done"
    /\ UNCHANGED <<config, elsewhere, i, lastErr, raceVars, consensusVars, compareVars,
                   queried>>

(***************************************************************************)
(* Consensus.ResolveType                                                   *)
(***************************************************************************)

\* A majority that rounds down: half of the resolvers, rounded up.
HalfRoundedUp(n) == (n + 1) \div 2

\* (len(resolvers) / 2) + 1
DefaultMinAgreement(n) == (n \div 2) + 1

\* A threshold test that asks for more than MinAgreement members.
MoreThanMinAgreement(count, min) == count > min

\* group.count >= s.MinAgreement
GroupQualifies(count, min) == count >= min

\* The index of the first group that records match, 0 when none does:
\* the inner `for i := range groups` with its break.
MatchingGroup(gs, records, ignoreTTL) ==
    LET hit == {g \in DOMAIN gs :
                   recordsEqual(gs[g].records, records, ignoreTTL)}
    IN  IF hit = {} THEN 0 ELSE CHOOSE g \in hit : \A h \in hit : g <= h

\* A grouping step that compares a response with the newest group only.
AddToLastGroupOnly(gs, records, ignoreTTL) ==
    IF gs # <<>> /\ recordsEqual(gs[Len(gs)].records, records, ignoreTTL)
    THEN [gs EXCEPT ![Len(gs)].count = @ + 1]
    ELSE Append(gs, [records |-> records, count |-> 1])

\* The body of the query loop for one successful response: count it in
\* the first matching group, or append a new group of count 1.
AddToGroups(gs, records, ignoreTTL) ==
    LET g == MatchingGroup(gs, records, ignoreTTL)
    IN  IF g # 0
        THEN [gs EXCEPT ![g].count = @ + 1]
        ELSE Append(gs, [records |-> records, count |-> 1])

\* A selection that returns the last group reaching the threshold.
LastQualifyingGroup(gs, min) ==
    LET ok == {g \in DOMAIN gs : GroupQualifies(gs[g].count, min)}
    IN  IF ok = {} THEN 0 ELSE CHOOSE g \in ok : \A h \in ok : g >= h

\* The index of the first group with sufficient agreement, 0 when none:
\* the final `for _, group := range groups`.
FirstQualifyingGroup(gs, min) ==
    LET ok == {g \in DOMAIN gs : GroupQualifies(gs[g].count, min)}
    IN  IF ok = {} THEN 0 ELSE CHOOSE g \in ok : \A h \in ok : g <= h

\* fmt.Errorf("consensus not reached: required %d agreements", ...)
ConsensusErr(min) ==
    "consensus not reached: required " \o ToString(min) \o " agreements"

\* What Consensus returns once every resolver is queried.
ConsensusResult(gs, min) ==
    LET g == FirstQualifyingGroup(gs, min)
    IN  IF g # 0
        THEN [records |-> gs[g].records, err |-> NoErr]
        ELSE [records |-> NilRecords, err |-> ConsensusErr(min)]

\* The threshold in force after the defaulting at the top of ResolveType.
ThresholdOf(s, n) ==
    IF s.MinAgreement <= 0 THEN DefaultMinAgreement(n) ELSE s.MinAgreement

\* The groups after the resolvers rs[k..] are queried in order.
RECURSIVE GroupsFrom(_, _, _, _)
GroupsFrom(gs, rs, k, ignoreTTL) ==
    IF k > Len(rs) THEN gs
    ELSE LET r == ResolveType(rs[k])
         IN  GroupsFrom(IF r.err # NoErr THEN gs
                        ELSE AddToGroups(gs, r.records, ignoreTTL),
                        rs, k + 1, ignoreTTL)

\* Consensus.ResolveType as a function of the strategy value and the
\* resolver list.
ConsensusOutcome(s, rs) ==
    ConsensusResult(GroupsFrom(<<>>, rs, 1, s.IgnoreTTL),
                    ThresholdOf(s, Len(rs)))

\* The defaulting of s.MinAgreement and `var groups []resultGroup`.
ConsensusCall ==
    /\ strategy.kind = "Consensus"
    /\ pc = "call"
    /\ minAgreement' = ThresholdOf(strategy, Len(resolvers))
    /\ groups' = <<>>
    /\ i' = 1
    /\ pc' = "loop"
    /\ UNCHANGED <<config, elsewhere, lastErr, raceVars, compareVars, queried, ret>>

\* One iteration of `for _, res := range resolvers`.
ConsensusQuery ==
    /\ strategy.kind = "Consensus"
    /\ pc = "loop"
    /\ i <= Len(resolvers)
    /\ LET r == ResolveType(resolvers[RangeResolvers(i)])
       IN  /\ queried' = Append(queried, RangeResolvers(i))
           /\ groups' = IF r.err # NoErr THEN groups
                        ELSE AddToGroups(groups, r.records, strategy.IgnoreTTL)
    /\ i' = i + 1
    /\ UNCHANGED <<config, elsewhere, pc, lastErr, minAgreement, raceVars, compareVars,
                   ret>>

\* The selection loop and the final return.
ConsensusReturn ==
    /\ strategy.kind = "Consensus"
    /\ pc = "loop"
    /\ i > Len(resolvers)
    /\ ret' = ConsensusResult(groups, minAgreement)
    /\ pc' = "done"
    /\ UNCHANGED <<config, elsewhere, i, lastErr, consensusVars, raceVars, compareVars,
                   queried>>

(***************************************************************************)
(* Compare.ResolveType                                                     *)
(***************************************************************************)

\* results[res.Name()] = records
MapPut(m, name, records) ==
    [k \in DOMAIN m \cup {name} |-> IF k = name THEN records ELSE m[k]]

\* The orders in which `for _, records := range results` may visit the
\* keys of a map: Go leaves the iteration order of a map unspecified.
RangeOrders(m) ==
    LET n == Cardinality(DOMAIN m)
    IN  {o \in [1..n -> DOMAIN m] : \A k \in DOMAIN m : \E j \in 1..n : o[j] = k}

\* The comparison loop over the map in the visiting order o, from position
\* j on: the first entry becomes the baseline, and the first entry that
\* differs from it clears allMatch and breaks.
RECURSIVE CompareScan(_, _, _, _, _)
CompareScan(m, o, j, fst, ignoreTTL) ==
    IF j > Len(o) THEN [first |-> fst, allMatch |-> TRUE]
    ELSE IF fst = NilRecords
         THEN CompareScan(m, o, j + 1, m[o[j]], ignoreTTL)
         ELSE IF ~recordsEqual(fst, m[o[j]], ignoreTTL)
              THEN [first |-> fst, allMatch |-> FALSE]
              ELSE CompareScan(m, o, j + 1, fst, ignoreTTL)

\* results := make(map[string][]Record)
CompareCall ==
    /\ strategy.kind = "Compare"
    /\ pc = "call"
    /\ resultsMap' = EmptyMap
    /\ i' = 1
    /\ pc' = "loop"
    /\ UNCHANGED <<config, elsewhere, lastErr, raceVars, consensusVars, first, allMatch,
                   calls, queried, ret>>

\* One iteration of `for _, res := range resolvers`: errors are ignored.
CompareQuery ==
    /\ strategy.kind = "Compare"
    /\ pc = "loop"
    /\ i <= Len(resolvers)
    /\ LET r == ResolveType(resolvers[RangeResolvers(i)])
       IN  /\ queried' = Append(queried, RangeResolvers(i))
           /\ resultsMap' = IF r.err = NoErr
                            THEN MapPut(resultsMap,
                                        resolvers[RangeResolvers(i)].name,
                                        r.records)
                            ELSE resultsMap
    /\ i' = i + 1
    /\ UNCHANGED <<config, elsewhere, pc, lastErr, raceVars, consensusVars, first,
                   allMatch, calls, ret>>

\* The comparison loop, the callback and the return.
CompareReturn ==
    /\ strategy.kind = "Compare"
    /\ pc = "loop"
    /\ i > Len(resolvers)
    /\ \E o \in RangeOrders(resultsMap) :
         LET scan == CompareScan(resultsMap, o, 1, NilRecords,
                                 strategy.IgnoreTTL)
         IN  /\ first' = scan.first
             /\ allMatch' = scan.allMatch
             /\ calls' = IF ~scan.allMatch /\ strategy.OnDiscrepancy
                         THEN Append(calls, [host |-> Host, qtype |-> QType,
                                             results |-> resultsMap])
                         ELSE calls
             /\ ret' = [records |-> scan.first, err |-> NoErr]
    /\ pc' = "done"
    /\ UNCHANGED <<config, elsewhere, i, lastErr, raceVars, consensusVars, resultsMap,
                   queried>>

(***************************************************************************)
(* Race.ResolveType                                                        *)
(***************************************************************************)

\* A closure that reads the loop variable after the loop has ended: every
\* goroutine queries the last resolver.
RaceTaskSharedResolver(k) == resolvers[Len(resolvers)]

\* The resolver goroutine k queries: `go func(r resolver) {...}(res)`.
RaceTaskResolver(k) == resolvers[k]

\* A loop that gives up after the first result.
RaceFirstResultOnly == IF Len(resolvers) > 0 THEN 1 ELSE 0

\* The bound of `for i := 0; i < len(resolvers); i++`.
RaceLoopBound == Len(resolvers)

\* A channel with room for one result only.
RaceChanCapOne == IF Len(resolvers) > 0 THEN 1 ELSE 0

\* cap(results): make(chan result, len(resolvers))
RaceChanCap == Len(resolvers)

\* context.WithCancel, make(chan result, n) and the launch of one
\* goroutine per resolver.
RaceCall ==
    /\ strategy.kind = "Race"
    /\ pc = "call"
    /\ cancelled' = FALSE
    /\ results' = <<>>
    /\ tasks' = [k \in 1..Len(resolvers) |-> "running"]
    /\ lastErr' = NoErr
    /\ i' = 0
    /\ pc' = "loop"
    /\ UNCHANGED <<config, elsewhere, posted, consensusVars, compareVars, queried, ret>>

\* Goroutine k: its query returns and it sends the result on the channel.
\* The send needs room in the buffer; it may come after Race returned.
RaceTaskPost(k) ==
    /\ strategy.kind = "Race"
    /\ pc # "call"
    /\ tasks[k] = "running"
    /\ Len(results) < RaceChanCap
    /\ LET r == ResolveType(RaceTaskResolver(k))
           res == [records |-> r.records, err |-> r.err, resolver |-> k]
       IN  /\ results' = Append(results, res)
           /\ posted' = Append(posted, res)
    /\ tasks' = [tasks EXCEPT ![k] = "done"]
    /\ UNCHANGED <<config, elsewhere, pc, i, lastErr, cancelled, consensusVars,
                   compareVars, queried, ret>>

\* One iteration of the receive loop: `r := <-results`.
RaceReceive ==
    /\ strategy.kind = "Race"
    /\ pc = "loop"
    /\ i < RaceLoopBound
    /\ results # <<>>
    /\ LET r == Head(results)
       IN  IF r.err = NoErr
           THEN /\ cancelled' = TRUE
                /\ ret' = [records |-> r.records, err |-> NoErr]
                /\ pc' = "done"
                /\ UNCHANGED <<i, lastErr>>
           ELSE /\ lastErr' = r.err
                /\ i' = i + 1
                /\ UNCHANGED <<cancelled, ret, pc>>
    /\ results' = Tail(results)
    /\ UNCHANGED <<config, elsewhere, tasks, posted, consensusVars, compareVars, queried>>

\* return nil, lastErr, and the deferred cancel().
RaceReturn ==
    /\ strategy.kind = "Race"
    /\ pc = "loop"
    /\ i >= RaceLoopBound
    /\ ret' = [records |-> NilRecords, err |-> lastErr]
    /\ cancelled' = TRUE
    /\ pc' = "done"
    /\ UNCHANGED <<config, elsewhere, i, lastErr, results, tasks, posted, consensusVars,
                   compareVars, queried>>

Next ==
    \/ RaceCall
    \/ \E k \in DOMAIN tasks : RaceTaskPost(k)
    \/ RaceReceive
    \/ RaceReturn
    \/ FallbackCall
    \/ FallbackQuery
    \/ FallbackReturn
    \/ ConsensusCall
    \/ ConsensusQuery
    \/ ConsensusReturn
    \/ CompareCall
    \/ CompareQuery
    \/ CompareReturn

Spec == Init /\ [][Next]_vars

(***************************************************************************)
(* recordsEqual on its own: a and b are drawn from every record list of    *)
(* at most MaxLen records, then recordsEqual(a, b, ignoreTTL) is called,   *)
(* and after it the calls its algebraic properties relate it to.           *)
(***************************************************************************)

\* The records the lists are made of: two values, two TTLs (0 among them,
\* the TTL the key of a record gets under ignoreTTL).
EqRecords == {Record(v, t) : v \in {"1.1.1.1", "2.2.2.2"}, t \in {0, 300}}

RecordLists == UNION {[1..n -> EqRecords] : n \in 0..MaxLen}

\* The list with every TTL set to zero.
ZeroTTLs(a) == [k \in DOMAIN a |-> [a[k] EXCEPT !.TTL = 0]]

StrategyAtRest ==
    /\ strategy = [kind |-> "none", MinAgreement |-> 0, IgnoreTTL |-> FALSE,
                   OnDiscrepancy |-> FALSE]
    /\ resolvers = <<>>
    /\ pc = "rest"
    /\ i = 0
    /\ lastErr = NoErr
    /\ minAgreement = 0
    /\ groups = <<>>
    /\ resultsMap = EmptyMap
    /\ first = NilRecords
    /\ allMatch = TRUE
    /\ results = <<>>
    /\ tasks = <<>>
    /\ cancelled = FALSE
    /\ posted = <<>>
    /\ queried = <<>>
    /\ calls = <<>>
    /\ ret = [records |-> NilRecords, err |-> NoErr]

InitEq ==
    /\ StrategyAtRest
    /\ PoolAtRest
    /\ ResolverAtRest
    /\ CacheAtRest
    /\ AppAtRest
    /\ eqA \in RecordLists
    /\ eqB \in RecordLists
    /\ eqIgnoreTTL \in BOOLEAN
    /\ eqPc = "call"
    /\ eqResult = <<>>

\* recordsEqual(a, b, ignoreTTL).
EqCall ==
    /\ eqPc = "call"
    /\ eqResult' = [ab |-> recordsEqual(eqA, eqB, eqIgnoreTTL)]
    /\ eqPc' = "related"
    /\ UNCHANGED <<outsideEq, eqA, eqB, eqIgnoreTTL>>

\* The same comparison with the arguments swapped, of each argument with
\* itself, and with the TTLs of one argument zeroed.
EqRelatedCalls ==
    /\ eqPc = "related"
    /\ eqResult' =
          [ab |-> eqResult.ab,
           ba |-> recordsEqual(eqB, eqA, eqIgnoreTTL),
           aa |-> recordsEqual(eqA, eqA, eqIgnoreTTL),
           bb |-> recordsEqual(eqB, eqB, eqIgnoreTTL),
           za |-> recordsEqual(ZeroTTLs(eqA), eqB, eqIgnoreTTL),
           zb |-> recordsEqual(eqA, ZeroTTLs(eqB), eqIgnoreTTL)]
    /\ eqPc' = "done"
    /\ UNCHANGED <<outsideEq, eqA, eqB, eqIgnoreTTL>>

NextEq ==
    \/ EqCall
    \/ EqRelatedCalls

SpecEq == InitEq /\ [][NextEq]_vars

(***************************************************************************)
(* The connection pool: Callers goroutines call Get, Put and Close on one  *)
(* connPool.  A step is one access to the pool's shared state: a critical  *)
(* section of mu, a channel operation, or close(p.conns).  A panic ends    *)
(* the program.                                                            *)
(***************************************************************************)

\* A Get that never finds the pool closed.
GetSkipsClosedCheck == FALSE

\* Get: if p.closed, read under mu.
GetSeesClosed == closed

\* The connection a successful dial returns: one that did not exist.
NewConn == CHOOSE c \in ConnIds :
              /\ connState[c] = "unborn"
              /\ \A d \in ConnIds : connState[d] = "unborn" => c <= d

CanDial == \E c \in ConnIds : connState[c] = "unborn"

StartOf(op, c) ==
    [op |-> op, result |-> "pending", conn |-> c, afterClose |-> closeReturned,
     full |-> FALSE]

\* Get, up to the release of mu: a closed pool returns net.ErrClosed.
GetCheck(p) ==
    /\ ~panicked
    /\ callerPc[p] = "idle"
    /\ held[p] = 0
    /\ mu = 0
    /\ IF GetSeesClosed
       THEN /\ outcome' = [outcome EXCEPT
                              ![p] = [StartOf("get", 0) EXCEPT
                                        !.result = "ErrClosed"]]
            /\ UNCHANGED callerPc
       ELSE /\ outcome' = [outcome EXCEPT ![p] = StartOf("get", 0)]
            /\ callerPc' = [callerPc EXCEPT ![p] = "getRecv"]
    /\ UNCHANGED <<size, closed, conns, chanClosed, mu, connState, held,
                   closeReturned, panicked>>

\* A receive that leaves the connection in the queue.
RecvLeavesQueued(q) == q

\* `case conn := <-p.conns`: the queue after the receive.
RecvRest(q) == Tail(q)

\* Get, the select and what follows it: a queued connection is returned;
\* an empty queue (the default case, or the nil a closed channel yields)
\* leads to ResolveUDPAddr and DialUDP, which fail or return a new
\* connection.
GetRecv(p) ==
    /\ ~panicked
    /\ callerPc[p] = "getRecv"
    /\ callerPc' = [callerPc EXCEPT ![p] = "idle"]
    /\ IF conns # <<>>
       THEN /\ held' = [held EXCEPT ![p] = Head(conns)]
            /\ conns' = RecvRest(conns)
            /\ outcome' = [outcome EXCEPT ![p].result = "reused",
                                          ![p].conn = Head(conns)]
            /\ UNCHANGED connState
       ELSE \/ /\ CanDial
               /\ connState' = [connState EXCEPT ![NewConn] = "open"]
               /\ held' = [held EXCEPT ![p] = NewConn]
               /\ outcome' = [outcome EXCEPT ![p].result = "dialed",
                                             ![p].conn = NewConn]
               /\ UNCHANGED conns
            \/ /\ outcome' = [outcome EXCEPT ![p].result = "dial error"]
               /\ UNCHANGED <<conns, connState, held>>
    /\ UNCHANGED <<size, closed, chanClosed, mu, closeReturned, panicked>>

\* Put(nil) returns at once.
PutNil(p) ==
    /\ ~panicked
    /\ callerPc[p] = "idle"
    /\ held[p] = 0
    /\ outcome' = [outcome EXCEPT
                     ![p] = [StartOf("put", 0) EXCEPT !.result = "ignored"]]
    /\ UNCHANGED <<size, closed, conns, chanClosed, mu, connState, callerPc,
                   held, closeReturned, panicked>>

\* Put, up to the release of mu: a closed pool closes the connection.
PutCheck(p) ==
    /\ ~panicked
    /\ callerPc[p] = "idle"
    /\ held[p] # 0
    /\ mu = 0
    /\ IF closed
       THEN /\ connState' = [connState EXCEPT ![held[p]] = "closed"]
            /\ held' = [held EXCEPT ![p] = 0]
            /\ outcome' = [outcome EXCEPT
                              ![p] = [StartOf("put", held[p]) EXCEPT
                                        !.result = "closed"]]
            /\ UNCHANGED callerPc
       ELSE /\ outcome' = [outcome EXCEPT ![p] = StartOf("put", held[p])]
            /\ callerPc' = [callerPc EXCEPT ![p] = "putSend"]
            /\ UNCHANGED <<connState, held>>
    /\ UNCHANGED <<size, closed, conns, chanClosed, mu, closeReturned,
                   panicked>>

\* Put, the select: a send on a closed channel panics, whether or not the
\* buffer has room; a send on an open channel queues the connection if
\* there is room; otherwise the default case closes the connection.
PutSend(p) ==
    /\ ~panicked
    /\ callerPc[p] = "putSend"
    /\ IF chanClosed
       THEN /\ panicked' = TRUE
            /\ callerPc' = [callerPc EXCEPT ![p] = "panicked"]
            /\ outcome' = [outcome EXCEPT ![p].result = "panic",
                                          ![p].full = (Len(conns) = size)]
            /\ UNCHANGED <<conns, connState, held>>
       ELSE /\ callerPc' = [callerPc EXCEPT ![p] = "idle"]
            /\ held' = [held EXCEPT ![p] = 0]
            /\ UNCHANGED panicked
            /\ IF Len(conns) < size
               THEN /\ conns' = Append(conns, held[p])
                    /\ outcome' = [outcome EXCEPT ![p].result = "queued"]
                    /\ UNCHANGED connState
               ELSE /\ connState' = [connState EXCEPT ![held[p]] = "closed"]
                    /\ outcome' = [outcome EXCEPT ![p].result = "closed",
                                                  ![p].full = TRUE]
                    /\ UNCHANGED conns
    /\ UNCHANGED <<size, closed, chanClosed, mu, closeReturned>>

\* Close, from p.mu.Lock() to p.closed = true: a closed pool returns nil.
CloseBegin(p) ==
    /\ ~panicked
    /\ callerPc[p] = "idle"
    /\ mu = 0
    /\ IF closed
       THEN /\ outcome' = [outcome EXCEPT
                              ![p] = [StartOf("close", 0) EXCEPT
                                        !.result = "nil"]]
            /\ UNCHANGED <<closed, mu, callerPc>>
       ELSE /\ closed' = TRUE
            /\ mu' = p
            /\ callerPc' = [callerPc EXCEPT ![p] = "closeChan"]
            /\ outcome' = [outcome EXCEPT ![p] = StartOf("close", 0)]
    /\ UNCHANGED <<size, conns, chanClosed, connState, held, closeReturned,
                   panicked>>

\* Close: close(p.conns), which panics on a channel already closed.
CloseChan(p) ==
    /\ ~panicked
    /\ callerPc[p] = "closeChan"
    /\ IF chanClosed
       THEN /\ panicked' = TRUE
            /\ callerPc' = [callerPc EXCEPT ![p] = "panicked"]
            /\ outcome' = [outcome EXCEPT ![p].result = "panic"]
            /\ UNCHANGED chanClosed
       ELSE /\ chanClosed' = TRUE
            /\ callerPc' = [callerPc EXCEPT ![p] = "closeDrain"]
            /\ UNCHANGED <<outcome, panicked>>
    /\ UNCHANGED <<size, closed, conns, mu, connState, held, closeReturned>>

\* Close: one iteration of for conn := range p.conns, or its end and the
\* deferred Unlock.
CloseDrain(p) ==
    /\ ~panicked
    /\ callerPc[p] = "closeDrain"
    /\ IF conns # <<>>
       THEN /\ connState' = [connState EXCEPT ![Head(conns)] = "closed"]
            /\ conns' = Tail(conns)
            /\ UNCHANGED <<mu, callerPc, outcome, closeReturned>>
       ELSE /\ mu' = 0
            /\ callerPc' = [callerPc EXCEPT ![p] = "idle"]
            /\ outcome' = [outcome EXCEPT ![p].result = "nil"]
            /\ closeReturned' = TRUE
            /\ UNCHANGED <<conns, connState>>
    /\ UNCHANGED <<size, closed, chanClosed, held, panicked>>

outsidePool == <<strategyVars, eqVars, resolverVars, cacheVars, appVars>>

InitPool ==
    /\ StrategyAtRest
    /\ EqAtRest
    /\ ResolverAtRest
    /\ CacheAtRest
    /\ AppAtRest
    /\ \E sizeArg \in 0..MaxPoolSize : newConnPool(sizeArg)

NextPool ==
    \/ \E p \in Callers : GetCheck(p) /\ UNCHANGED outsidePool
    \/ \E p \in Callers : GetRecv(p) /\ UNCHANGED outsidePool
    \/ \E p \in Callers : PutNil(p) /\ UNCHANGED outsidePool
    \/ \E p \in Callers : PutCheck(p) /\ UNCHANGED outsidePool
    \/ \E p \in Callers : PutSend(p) /\ UNCHANGED outsidePool
    \/ \E p \in Callers : CloseBegin(p) /\ UNCHANGED outsidePool
    \/ \E p \in Callers : CloseChan(p) /\ UNCHANGED outsidePool
    \/ \E p \in Callers : CloseDrain(p) /\ UNCHANGED outsidePool

SpecPool == InitPool /\ [][NextPool]_vars

(***************************************************************************)
(* The UDP resolver: each caller runs udpResolver.ResolveType once against *)
(* the resolver's pool, which nothing closes.  SpecResolver is the         *)
(* concurrent use of the pool by queries whose contexts carry no deadline, *)
(* at one instant.  SpecDeadline is one query under a clock of instants    *)
(* 0..MaxTime: its context may carry a deadline and may be cancelled (as   *)
(* Race cancels the context of its queries when it returns), and an I/O    *)
(* deadline that has been reached fires before the clock moves on.         *)
(***************************************************************************)

NoDeadline == -1
NotCancelled == -1

Rcodes == {"NOERROR", "SERVFAIL"}

\* The answer sections a server sends: empty, or one A record.
Answers == {<<>>, <<Record("1.1.1.1", 300)>>}

\* to: the caller whose query the datagram answers.
NoResponse == [rcode |-> "none", answer |-> <<>>, to |-> 0]

\* A query that has not started.
IdleQuery ==
    [pc |-> "idle", ctxDeadline |-> NoDeadline, cancelAt |-> NotCancelled,
     setAt |-> 0, deadline |-> NoDeadline, readEnd |-> "none",
     response |-> NoResponse, released |-> <<>>,
     conn |-> 0, sent |-> FALSE, answered |-> FALSE,
     ret |-> [records |-> NilRecords, err |-> NoErr]]

\* A deadline that ignores the context.
TimeoutDeadline(ctxDeadline, t, d) == t + d

\* The deadline ResolveType sets on the connection: the context's deadline
\* if it has one, else the resolver's timeout from now.
ConnDeadline(ctxDeadline, t, d) ==
    IF ctxDeadline # NoDeadline THEN ctxDeadline ELSE t + d

\* A failed write or read that leaves the connection open.
IOFailureLeaks == FALSE

\* A failed write or read closes the connection.
IOFailureCloses == TRUE

\* The error of fmt.Errorf("dns error: %s", dns.RcodeToString[rcode]).
RcodeErr(rcode) == "dns error: " \o rcode

\* The answer section as records, one per resource record.
RecordsOf(answer) == answer

\* A check for no records that never finds any missing.
NeverNoRecords(records) == FALSE

\* if len(records) == 0.
NoRecordsFound(records) == Len(records) = 0

\* ResolveType is called with a context, whose deadline is among
\* deadlines.
ResolveStart(p, deadlines) ==
    /\ query[p].pc = "idle"
    /\ \E d \in deadlines :
          query' = [query EXCEPT ![p] = [IdleQuery EXCEPT !.pc = "get",
                                                          !.ctxDeadline = d]]
    /\ UNCHANGED <<now, timeout, poolVars>>

\* conn, err := r.connPool.Get(), one step of Get at a time.
ResolveGet(p) ==
    /\ query[p].pc = "get"
    /\ GetCheck(p) \/ GetRecv(p)
    /\ query' =
          IF callerPc'[p] # "idle" THEN query
          ELSE IF held'[p] = 0
          THEN [query EXCEPT
                  ![p].pc = "done",
                  ![p].ret = [records |-> NilRecords,
                              err |-> "failed to get connection"]]
          ELSE [query EXCEPT ![p].pc = "deadline"]
    /\ UNCHANGED <<now, timeout>>

\* conn.SetDeadline.
ResolveSetDeadline(p) ==
    /\ query[p].pc = "deadline"
    /\ query' = [query EXCEPT
                   ![p].pc = "write",
                   ![p].setAt = now,
                   ![p].deadline =
                       ConnDeadline(query[p].ctxDeadline, now, timeout)]
    /\ UNCHANGED <<now, timeout, poolVars>>

\* The queries sent on connection c whose response no read has taken.
Outstanding(c) ==
    {q \in Callers :
        query[q].sent /\ query[q].conn = c /\ ~query[q].answered}

\* A failure path that hands the connection back to the pool.
FailedConnRequeued(q, c) == IF Len(q) < size THEN Append(q, c) ELSE q

\* The idle queue after a failed write or read: the connection is not
\* handed to Put.
FailedConnNotQueued(q, c) == q

\* The failure of dnsConn.WriteMsg or dnsConn.ReadMsg: conn.Close() and
\* the "query failed" error.
QueryFailed(p, how) ==
    /\ query' = [query EXCEPT
                   ![p].pc = "done",
                   ![p].readEnd = how,
                   ![p].released =
                       IF IOFailureCloses THEN Append(@, "close") ELSE @,
                   ![p].ret = [records |-> NilRecords, err |-> "query failed"]]
    /\ connState' = IF IOFailureCloses
                    THEN [connState EXCEPT ![held[p]] = "closed"]
                    ELSE connState
    /\ held' = [held EXCEPT ![p] = 0]
    /\ conns' = FailedConnNotQueued(conns, held[p])
    /\ UNCHANGED <<now, timeout, size, closed, chanClosed, mu,
                   callerPc, outcome, closeReturned, panicked>>

\* dnsConn.WriteMsg(msg): the query is sent, or the write fails.
ResolveWrite(p) ==
    /\ query[p].pc = "write"
    /\ \/ /\ now < query[p].deadline
          /\ query' = [query EXCEPT ![p].pc = "read",
                                    ![p].sent = TRUE,
                                    ![p].conn = held[p]]
          /\ UNCHANGED <<now, timeout, poolVars>>
       \/ QueryFailed(p, "none")

\* dnsConn.ReadMsg(): a response arrives before the deadline, the deadline
\* expires, or the read fails otherwise.  The datagram read answers one of
\* the queries outstanding on the connection: ReadMsg does not compare
\* the response with the query.
ResolveRead(p) ==
    /\ query[p].pc = "read"
    /\ \/ /\ now < query[p].deadline
          /\ \E rc \in Rcodes, an \in Answers, q \in Outstanding(held[p]) :
                query' = [query EXCEPT
                            ![q].answered = TRUE,
                            ![p].pc = "put",
                            ![p].readEnd = "response",
                            ![p].response =
                                [rcode |-> rc, answer |-> an, to |-> q]]
          /\ UNCHANGED <<now, timeout, poolVars>>
       \/ /\ now >= query[p].deadline
          /\ QueryFailed(p, "deadline")
       \/ /\ now < query[p].deadline
          /\ QueryFailed(p, "error")

\* r.connPool.Put(conn), one step of Put at a time.
ResolvePut(p) ==
    /\ query[p].pc = "put"
    /\ PutCheck(p) \/ PutSend(p)
    /\ query' = [query EXCEPT
                   ![p].released =
                       IF callerPc[p] = "idle" THEN Append(@, "put") ELSE @,
                   ![p].pc = IF callerPc'[p] = "idle" THEN "parse" ELSE @]
    /\ UNCHANGED <<now, timeout>>

\* The rest of ResolveType: the RCODE check, the answer section, the
\* check for no records.
ResolveParse(p) ==
    /\ query[p].pc = "parse"
    /\ LET rc == query[p].response.rcode
           records == RecordsOf(query[p].response.answer)
       IN  query' = [query EXCEPT
                       ![p].pc = "done",
                       ![p].ret =
                           IF rc # "NOERROR"
                           THEN [records |-> NilRecords, err |-> RcodeErr(rc)]
                           ELSE IF NoRecordsFound(records)
                           THEN [records |-> NilRecords,
                                 err |-> "no records found"]
                           ELSE [records |-> records, err |-> NoErr]]
    /\ UNCHANGED <<now, timeout, poolVars>>

\* The context of a running query is cancelled.
CtxCancel(p) ==
    /\ query[p].pc \notin {"idle", "done"}
    /\ query[p].cancelAt = NotCancelled
    /\ query' = [query EXCEPT ![p].cancelAt = now]
    /\ UNCHANGED <<now, timeout, poolVars>>

\* The clock moves on, unless a pending write or read is at its deadline.
Tick ==
    /\ now < MaxTime
    /\ \A p \in Callers :
          query[p].pc \in {"write", "read"} => now < query[p].deadline
    /\ now' = now + 1
    /\ UNCHANGED <<timeout, query, poolVars>>

outsideResolver == <<strategyVars, eqVars, cacheVars, appVars>>

InitResolver ==
    /\ StrategyAtRest
    /\ EqAtRest
    /\ CacheAtRest
    /\ AppAtRest
    /\ \E sizeArg \in 0..MaxPoolSize : newConnPool(sizeArg)
    /\ now = 0
    /\ timeout = MaxTimeout
    /\ query = [p \in Callers |-> IdleQuery]

NextResolver ==
    \/ \E p \in Callers :
          ResolveStart(p, {NoDeadline}) /\ UNCHANGED outsideResolver
    \/ \E p \in Callers : ResolveGet(p) /\ UNCHANGED outsideResolver
    \/ \E p \in Callers : ResolveSetDeadline(p) /\ UNCHANGED outsideResolver
    \/ \E p \in Callers : ResolveWrite(p) /\ UNCHANGED outsideResolver
    \/ \E p \in Callers : ResolveRead(p) /\ UNCHANGED outsideResolver
    \/ \E p \in Callers : ResolvePut(p) /\ UNCHANGED outsideResolver
    \/ \E p \in Callers : ResolveParse(p) /\ UNCHANGED outsideResolver

SpecResolver == InitResolver /\ [][NextResolver]_vars

\* The caller whose query runs under the clock.
Timed == 1

\* The deadlines a context may carry at this instant.
CtxDeadlines == {NoDeadline} \cup (now..MaxTime)

InitDeadline ==
    /\ StrategyAtRest
    /\ EqAtRest
    /\ CacheAtRest
    /\ AppAtRest
    /\ \E sizeArg \in 0..MaxPoolSize : newConnPool(sizeArg)
    /\ now = 0
    /\ timeout \in 1..MaxTimeout
    /\ query = [p \in Callers |-> IdleQuery]

NextDeadline ==
    \/ ResolveStart(Timed, CtxDeadlines) /\ UNCHANGED outsideResolver
    \/ ResolveGet(Timed) /\ UNCHANGED outsideResolver
    \/ ResolveSetDeadline(Timed) /\ UNCHANGED outsideResolver
    \/ ResolveWrite(Timed) /\ UNCHANGED outsideResolver
    \/ ResolveRead(Timed) /\ UNCHANGED outsideResolver
    \/ ResolvePut(Timed) /\ UNCHANGED outsideResolver
    \/ ResolveParse(Timed) /\ UNCHANGED outsideResolver
    \/ CtxCancel(Timed) /\ UNCHANGED outsideResolver
    \/ Tick /\ UNCHANGED outsideResolver

SpecDeadline == InitDeadline /\ [][NextDeadline]_vars

(***************************************************************************)
(* The IP cache: setIPs and getIPs on one dnsCache, under the clock.  The  *)
(* expirable LRU under it keeps at most cacheSize entries, evicting the    *)
(* least recently used, and lets an entry expire maxTTL after it was       *)
(* added; its sweeper removes expired entries at some later time.          *)
(***************************************************************************)

CacheHosts == {"a.example", "b.example"}

\* The IP lists given to setIPs: none, or one address.
IPLists == {<<>>, <<"10.0.0.1">>}

NilIPs == <<>>

\* The expiry of an LRU entry that never expires.
Never == MaxTime + 1

\* time.Now().After(expiresAt), with t for time.Now().
After(t, expiresAt) == t > expiresAt

\* An entry that counts as expired from the instant of its expiry on.
isExpiredAtExpiry(e) == now >= e.expiresAt

\* ipCacheEntry.isExpired.
isExpired(e) == After(now, e.expiresAt)

\* setIPs: the TTL clamped to the configured bounds, the lower bound first.
ClampTTLNoMax(ttl) == IF ttl < minTTL THEN minTTL ELSE ttl

ClampTTLNoMin(ttl) == IF ttl > maxTTL THEN maxTTL ELSE ttl

ClampTTL(ttl) ==
    LET raised == IF ttl < minTTL THEN minTTL ELSE ttl
    IN  IF raised > maxTTL THEN maxTTL ELSE raised

\* The positions of host's entry in the LRU, at most one.
PositionsOf(host) == {k \in DOMAIN ipCache : ipCache[k].host = host}

\* The LRU without the entry at position k.
Without(k) == [j \in 1..(Len(ipCache) - 1) |->
                  IF j < k THEN ipCache[j] ELSE ipCache[j + 1]]

\* lru Add: the entry goes to the front, replacing the host's former
\* entry; beyond cacheSize entries the least recently used is evicted.
LRUAdd(e) ==
    LET rest == IF PositionsOf(e.host) = {} THEN ipCache
                ELSE Without(CHOOSE k \in PositionsOf(e.host) : TRUE)
        all == <<e>> \o rest
    IN  IF Len(all) > cacheSize THEN SubSeq(all, 1, cacheSize) ELSE all

\* newDNSCache(size, minTTL, maxTTL).
newDNSCache(sizeArg, lo, hi) ==
    /\ enabled = (sizeArg > 0)
    /\ minTTL = IF sizeArg > 0 THEN lo ELSE 0
    /\ maxTTL = IF sizeArg > 0 THEN hi ELSE 0
    /\ cacheSize = IF sizeArg > 0 THEN sizeArg ELSE 0
    /\ ipCache = <<>>
    /\ got = NoGet

\* getIPs(host): nil from a disabled cache, on a miss of the LRU (no
\* entry, or one the LRU holds expired) and on an entry that isExpired;
\* otherwise a copy of the entry's addresses.  A hit of the LRU makes the
\* entry the most recently used.  got.entry is the entry the LRU held for
\* the host at the call, if any.
getIPs(host) ==
    /\ LET ks == {k \in PositionsOf(host) :
                     ~After(now, ipCache[k].lruExpiresAt)}
       IN  IF ~enabled \/ ks = {}
           THEN /\ got' = [NoGet EXCEPT
                              !.host = host, !.at = now,
                              !.entry = IF PositionsOf(host) = {} THEN <<>>
                                        ELSE ipCache[CHOOSE j \in
                                               PositionsOf(host) : TRUE]]
                /\ UNCHANGED ipCache
           ELSE LET k == CHOOSE j \in ks : TRUE
                    entry == ipCache[k]
                IN  /\ ipCache' = <<entry>> \o Without(k)
                    /\ got' = [host |-> host, at |-> now, found |-> TRUE,
                               expiresAt |-> entry.expiresAt,
                               entry |-> entry,
                               ips |-> IF isExpired(entry) THEN NilIPs
                                       ELSE entry.ips]
    /\ UNCHANGED <<enabled, minTTL, maxTTL, cacheSize, now>>

skipsWriteDisabledOnly(ips) == ~enabled

\* setIPs writes nothing when the cache is disabled or the list is empty.
skipsWrite(ips) == ~enabled \/ Len(ips) = 0

\* setIPs(host, ips, ttl): nothing for a disabled cache or an empty list;
\* otherwise the entry expires the clamped TTL from now.  The entry
\* remembers the call that wrote it (at, ttl).
setIPs(host, ips, ttl) ==
    /\ IF skipsWrite(ips)
       THEN UNCHANGED ipCache
       ELSE ipCache' =
              LRUAdd([host |-> host, ips |-> ips,
                      expiresAt |-> now + ClampTTL(ttl),
                      at |-> now, ttl |-> ttl,
                      lruExpiresAt |-> IF maxTTL <= 0 THEN Never
                                       ELSE now + maxTTL])
    /\ UNCHANGED <<enabled, minTTL, maxTTL, cacheSize, got, now>>

\* The LRU's sweeper removes an entry it holds expired.
LRUSweep ==
    /\ \E k \in DOMAIN ipCache :
          /\ After(now, ipCache[k].lruExpiresAt)
          /\ ipCache' = Without(k)
    /\ UNCHANGED <<enabled, minTTL, maxTTL, cacheSize, got, now>>

\* The clock moves on.
CacheTick ==
    /\ now < MaxTime
    /\ now' = now + 1
    /\ UNCHANGED cacheVars

outsideCache == <<strategyVars, eqVars, poolVars, timeout, query, appVars>>

InitCache ==
    /\ StrategyAtRest
    /\ EqAtRest
    /\ PoolAtRest
    /\ ResolverAtRest
    /\ AppAtRest
    /\ \E sizeArg \in 0..MaxCacheSize, lo \in {0, 1}, hi \in 0..MaxTTL :
          newDNSCache(sizeArg, lo, hi)

NextCache ==
    \/ \E h \in CacheHosts : getIPs(h) /\ UNCHANGED outsideCache
    \/ \E h \in CacheHosts, ips \in IPLists, ttl \in 0..MaxTTL :
          setIPs(h, ips, ttl) /\ UNCHANGED outsideCache
    \/ LRUSweep /\ UNCHANGED outsideCache
    \/ CacheTick /\ UNCHANGED outsideCache

SpecCache == InitCache /\ [][NextCache]_vars

(***************************************************************************)
(* The Dialer: DialContext, lookupIPs and lookup over the cache.           *)
(***************************************************************************)

\* lookupIPs: the TTL the minimum starts from, in seconds.
DefaultTTL == 300

\* A cache maxTTL above every TTL of a response.
LongTTL == 3 * DefaultTTL

\* A Record of any type.
RR(type, v, t) == [Type |-> type, Value |-> v, TTL |-> t]

\* A nil net.IP.  A net.IP is written as its String().
NilIP == ""

\* net.ParseIP: dotted IPv4 and IPv6 texts parse, an IPv4-mapped IPv6 text
\* parses to the IPv4 address, anything else (a name, the "<nil>" of an A
\* record without address) does not.
ParseIP(s) ==
    CASE s \in {"10.0.0.1", "10.0.0.2"} -> s
      [] s = "::ffff:10.0.0.3" -> "10.0.0.3"
      [] s \in {"2001:db8::1", "2001:db8::2"} -> s
      [] OTHER -> NilIP

\* ip.To4(): the address if it is an IPv4 address, else nil.
To4(ip) == IF ip \in {"10.0.0.1", "10.0.0.2", "10.0.0.3"} THEN ip ELSE NilIP

\* ip.To16(): every parsed address has a 16-byte form.
To16(ip) == ip

\* The addresses DialContext is called with: a name with a port, IP
\* literals with a port, and a name without port.
Addrs == {"a.example:443", "10.0.0.1:443", "[2001:db8::1]:443", "a.example"}

\* net.SplitHostPort.
SplitHostPort(addr) ==
    CASE addr = "a.example:443" ->
           [host |-> "a.example", port |-> "443", err |-> NoErr]
      [] addr = "10.0.0.1:443" ->
           [host |-> "10.0.0.1", port |-> "443", err |-> NoErr]
      [] addr = "[2001:db8::1]:443" ->
           [host |-> "2001:db8::1", port |-> "443", err |-> NoErr]
      [] OTHER -> [host |-> "", port |-> "", err |-> "missing port in address"]

\* net.JoinHostPort: a host with a colon is bracketed.
JoinHostPort(host, port) ==
    IF To4(host) = NilIP THEN "[" \o host \o "]:" \o port
    ELSE host \o ":" \o port

Networks == {"tcp", "tcp4", "udp4", "udp6"}

\* queryTypes := []RecordType{TypeA, TypeAAAA}
QueryTypes == {"A", "AAAA"}

\* What r.strategy.ResolveType returns for a type: an error, or a list
\* that is never empty.  The lists hold TTLs above, at and below
\* DefaultTTL, a CNAME before the address, an A record whose value does
\* not parse, an IPv4-mapped AAAA record and a CNAME alone.
StrategyResults(qt) ==
    [records : {NilRecords}, err : {"timeout"}, qtype : {qt}]
    \cup
    [records :
        IF qt = "A"
        THEN { <<RR("A", "10.0.0.1", 2 * DefaultTTL)>>,
               <<RR("A", "10.0.0.1", 2 * DefaultTTL), RR("A", "10.0.0.2", 1)>>,
               <<RR("CNAME", "alias.example.", 1),
                 RR("A", "10.0.0.1", 2 * DefaultTTL)>>,
               <<RR("A", "<nil>", DefaultTTL)>> }
        ELSE { <<RR("AAAA", "2001:db8::1", 2 * DefaultTTL)>>,
               <<RR("AAAA", "::ffff:10.0.0.3", DefaultTTL),
                 RR("AAAA", "2001:db8::1", 3 * DefaultTTL)>>,
               <<RR("CNAME", "alias.example.", DefaultTTL)>> },
     err : {NoErr}, qtype : {qt}]

RECURSIVE lookupFirstErrorAborts(_)
lookupFirstErrorAborts(rs) ==
    IF rs = <<>> THEN <<>>
    ELSE IF Head(rs).err # NoErr THEN <<>>
    ELSE Head(rs).records \o lookupFirstErrorAborts(Tail(rs))

\* lookup: the results are taken from the channel in the order they
\* arrived; one with an error is skipped, the records of the others are
\* appended.  The error returned is always nil.
RECURSIVE lookup(_)
lookup(rs) ==
    IF rs = <<>> THEN <<>>
    ELSE (IF Head(rs).err # NoErr THEN <<>> ELSE Head(rs).records)
             \o lookup(Tail(rs))

\* lookupIPs: the loop over the records, from record k on, with the
\* addresses and the minimum TTL so far.
RECURSIVE extract(_, _, _, _)
extract(records, k, ips, ttl) ==
    IF k > Len(records) THEN [ips |-> ips, minTTL |-> ttl]
    ELSE LET record == records[k]
             ip == ParseIP(record.Value)
         IN  IF record.Type \in {"A", "AAAA"} /\ ip # NilIP
             THEN extract(records, k + 1, Append(ips, ip),
                          IF record.TTL < ttl THEN record.TTL ELSE ttl)
             ELSE extract(records, k + 1, ips, ttl)

NoIPsFoundNever(ips) == FALSE

\* if len(ips) == 0.
NoIPsFound(ips) == Len(ips) = 0

CacheHitNever(cached) == FALSE

\* if cached := r.cache.getIPs(host); cached != nil.
CacheHit(cached) == cached # NilIPs

isIPLiteralNever(host) == FALSE

\* if ip := net.ParseIP(host); ip != nil.
isIPLiteral(host) == ParseIP(host) # NilIP

filterIPsIPv4Only(network, ips) ==
    SelectSeq(ips, LAMBDA ip : To4(ip) # NilIP)

\* DialContext: the switch on the network.
filterIPs(network, ips) ==
    LET ipv4 == SelectSeq(ips, LAMBDA ip : To4(ip) # NilIP)
        ipv6 == SelectSeq(ips, LAMBDA ip : To4(ip) = NilIP /\ To16(ip) # NilIP)
    IN  CASE network \in {"tcp4", "udp4"} -> ipv4
          [] network \in {"tcp6", "udp6"} -> ipv6
          [] OTHER -> ipv4 \o ipv6

\* The query type whose strategy call failed in the lookup that wrote the
\* cache last, "" when both succeeded or nothing was written: taken from
\* the call that has just ended, or kept from the calls before it when
\* that call did no lookup.
FailedTypeOfEntry ==
    IF dial.setCalls > 0
    THEN LET failed == {k \in DOMAIN look.results :
                           look.results[k].err # NoErr}
         IN  IF failed = {} THEN ""
             ELSE look.results[CHOOSE k \in failed : TRUE].qtype
    ELSE IF dial.strategyCalls > 0 THEN ""
    ELSE dial.missing

\* DialContext(ctx, network, addr) up to the call of lookupIPs: an address
\* that does not split is an error, an IP literal is dialed as given.
DialContext(network, addr) ==
    /\ dial.pc \in {"idle", "done"}
    /\ LET sp == SplitHostPort(addr)
           call == [NoDial EXCEPT
                      !.network = network, !.addr = addr, !.host = sp.host,
                      !.port = sp.port, !.before = ipCache,
                      !.failedHost =
                          IF dial.err =
                               "DNS lookup failed: no IP addresses found"
                          THEN dial.host ELSE "",
                      !.missing = FailedTypeOfEntry]
       IN  IF sp.err # NoErr
           THEN dial' = [call EXCEPT !.pc = "done", !.err = "invalid address"]
           ELSE IF isIPLiteral(sp.host)
           THEN \E ok \in BOOLEAN :
                  dial' = [call EXCEPT
                             !.pc = "done", !.dialed = <<addr>>,
                             !.conn = IF ok THEN addr ELSE "",
                             !.err = IF ok THEN NoErr ELSE "connection refused"]
           ELSE dial' = [call EXCEPT !.pc = "lookupIPs"]
    /\ look' = NoLookup
    /\ UNCHANGED <<cacheVars, now>>

\* lookupIPs up to the call of lookup: a hit of the cache is returned, a
\* miss starts one goroutine per query type, each calling the strategy.
lookupIPs ==
    /\ dial.pc = "lookupIPs"
    /\ getIPs(dial.host)
    /\ IF CacheHit(got'.ips)
       THEN /\ dial' = [dial EXCEPT !.pc = "filter", !.reads = @ + 1,
                                    !.cached = got'.ips, !.ips = got'.ips]
            /\ UNCHANGED look
       ELSE /\ dial' = [dial EXCEPT !.pc = "lookup", !.reads = @ + 1,
                                    !.cached = got'.ips,
                                    !.strategyCalls =
                                        @ + Cardinality(QueryTypes)]
            /\ look' = [NoLookup EXCEPT !.pending = QueryTypes]

\* A goroutine of lookup: the strategy returns and the result is sent.
ResolveTypeReturns(qt, res) ==
    /\ dial.pc = "lookup"
    /\ qt \in look.pending
    /\ look' = [look EXCEPT !.pending = @ \ {qt},
                            !.results = Append(@, res)]
    /\ UNCHANGED <<dial, cacheVars, now>>

\* lookup has collected both results; lookupIPs extracts the addresses,
\* fails when there is none, and else writes the cache and returns them.
lookupIPsExtract ==
    /\ dial.pc = "lookup"
    /\ look.pending = {}
    /\ LET records == lookup(look.results)
           x == extract(records, 1, <<>>, DefaultTTL)
       IN  /\ look' = [look EXCEPT !.allRecords = records]
           /\ IF NoIPsFound(x.ips)
              THEN /\ dial' = [dial EXCEPT
                                 !.pc = "done",
                                 !.err =
                                   "DNS lookup failed: no IP addresses found"]
                   /\ UNCHANGED <<cacheVars, now>>
              ELSE /\ setIPs(dial.host, x.ips, x.minTTL)
                   /\ dial' = [dial EXCEPT !.pc = "filter", !.ips = x.ips,
                                           !.ttl = x.minTTL, !.setCalls = @ + 1]

\* DialContext after lookupIPs: the candidates of the network's family.
DialFilter ==
    /\ dial.pc = "filter"
    /\ LET filteredIPs == filterIPs(dial.network, dial.ips)
       IN  dial' = IF Len(filteredIPs) = 0
                   THEN [dial EXCEPT !.pc = "done",
                                     !.err = "no suitable IP addresses found"]
                   ELSE [dial EXCEPT !.pc = "connect",
                                     !.filteredIPs = filteredIPs]
    /\ UNCHANGED <<look, cacheVars, now>>

\* The error of the platform dialer for an address that does not connect.
ConnectErr(ipAddr) == "dial " \o ipAddr \o ": connection refused"

KeepFirstErr(last, err) == IF last = NoErr THEN err ELSE last

\* lastErr = err.
DialLastErr(last, err) == err

\* DialContext: one turn of the loop over the candidates, and the return
\* after the last one failed.
DialConnect(ok) ==
    /\ dial.pc = "connect"
    /\ LET k == Len(dial.dialed) + 1
           ipAddr == JoinHostPort(dial.filteredIPs[k], dial.port)
           last == DialLastErr(dial.lastErr, ConnectErr(ipAddr))
       IN  dial' = IF ok
                   THEN [dial EXCEPT !.pc = "done", !.conn = ipAddr,
                                     !.dialed = Append(@, ipAddr)]
                   ELSE IF k = Len(dial.filteredIPs)
                   THEN [dial EXCEPT
                           !.pc = "done", !.lastErr = last,
                           !.err = "failed to connect to " \o dial.host
                                      \o ": " \o last,
                           !.dialed = Append(@, ipAddr)]
                   ELSE [dial EXCEPT !.lastErr = last,
                                     !.dialed = Append(@, ipAddr)]
    /\ UNCHANGED <<look, cacheVars, now>>

outsideDialer ==
    <<strategyVars, eqVars, poolVars, timeout, query, aliasVars, optionVars>>

\* New with WithCache(size, minTTL, maxTTL), or without (a cache of size 0).
InitDialer ==
    /\ StrategyAtRest
    /\ EqAtRest
    /\ PoolAtRest
    /\ ResolverAtRest
    /\ AliasAtRest
    /\ OptionsAtRest
    /\ DialerAtRest
    /\ \E sizeArg \in {0, 1}, lo \in {0, 1}, hi \in {1, LongTTL} :
          newDNSCache(sizeArg, lo, hi)

NextDialer ==
    \/ \E network \in Networks, addr \in Addrs :
          DialContext(network, addr) /\ UNCHANGED outsideDialer
    \/ lookupIPs /\ UNCHANGED outsideDialer
    \/ \E qt \in QueryTypes : \E res \in StrategyResults(qt) :
          ResolveTypeReturns(qt, res) /\ UNCHANGED outsideDialer
    \/ lookupIPsExtract /\ UNCHANGED outsideDialer
    \/ DialFilter /\ UNCHANGED outsideDialer
    \/ \E ok \in BOOLEAN : DialConnect(ok) /\ UNCHANGED outsideDialer
    \/ LRUSweep /\ UNCHANGED <<outsideDialer, dialVars>>
    \/ CacheTick /\ UNCHANGED <<outsideDialer, dialVars>>

SpecDialer == InitDialer /\ [][NextDialer]_vars

(***************************************************************************)
(* The []net.IP backing arrays.  A list is an array on the heap; two       *)
(* holders of the same array see each other's writes to its elements.      *)
(***************************************************************************)

MaxLists == 3

AliasHost == "a.example"

\* The lists lookupIPs extracts, and the addresses a caller writes.
AliasLists == {<<"10.0.0.1">>, <<"10.0.0.1", "10.0.0.2">>}
AliasIPs == {"10.0.0.1", "10.0.0.9"}

\* lookupIPs after the extraction: ips is a new array; setIPs is called
\* with it and stores it in the entry (ips: ips); lookupIPs returns it.
lookupIPsStore(ips, ttl) ==
    /\ Len(heap) < MaxLists
    /\ setIPs(AliasHost, ips, ttl)
    /\ heap' = Append(heap, ips)
    /\ entryList' = IF skipsWrite(ips) THEN entryList ELSE Len(heap) + 1
    /\ callerLists' = callerLists \cup {Len(heap) + 1}
    /\ written' = ips
    /\ UNCHANGED lastHit

\* getIPs on a hit: make and copy, a new array with the entry's elements,
\* returned to the caller.
getIPsCopy ==
    /\ Len(heap) < MaxLists
    /\ getIPs(AliasHost)
    /\ IF got'.ips = NilIPs
       THEN UNCHANGED <<heap, callerLists, lastHit>>
       ELSE /\ heap' = Append(heap, got'.ips)
            /\ callerLists' = callerLists \cup {Len(heap) + 1}
            /\ lastHit' = [list |-> Len(heap) + 1, ips |-> got'.ips,
                           written |-> written]
    /\ UNCHANGED <<entryList, written>>

\* A caller overwrites element k of a list it holds; the cache entry sees
\* the write when its ips field refers to that array.
CallerOverwrites(id, k, ip) ==
    /\ id \in callerLists
    /\ k \in DOMAIN heap[id]
    /\ heap[id][k] # ip
    /\ heap' = [heap EXCEPT ![id][k] = ip]
    /\ ipCache' = IF id = entryList
                  THEN [j \in DOMAIN ipCache |->
                          IF ipCache[j].host = AliasHost
                          THEN [ipCache[j] EXCEPT !.ips[k] = ip]
                          ELSE ipCache[j]]
                  ELSE ipCache
    /\ UNCHANGED <<enabled, minTTL, maxTTL, cacheSize, got, now, entryList,
                   callerLists, written, lastHit>>

outsideAlias ==
    <<strategyVars, eqVars, poolVars, timeout, query, dialVars, optionVars>>

\* New with WithCache: an enabled cache whose entries do not expire
\* while the clock stands.
InitAlias ==
    /\ StrategyAtRest
    /\ EqAtRest
    /\ PoolAtRest
    /\ ResolverAtRest
    /\ DialerAtRest
    /\ AliasAtRest
    /\ OptionsAtRest
    /\ \E sizeArg \in 1..MaxCacheSize : newDNSCache(sizeArg, 0, LongTTL)

NextAlias ==
    \/ \E ips \in AliasLists, ttl \in {DefaultTTL} :
          lookupIPsStore(ips, ttl) /\ UNCHANGED outsideAlias
    \/ getIPsCopy /\ UNCHANGED outsideAlias
    \/ \E id \in 1..MaxLists, k \in 1..MaxLen, ip \in AliasIPs :
          CallerOverwrites(id, k, ip) /\ UNCHANGED outsideAlias

SpecAlias == InitAlias /\ [][NextAlias]_vars

(***************************************************************************)
(* New and its options.                                                    *)
(***************************************************************************)

MaxOptions == 3

\* New: the timeout in seconds and the pool size before any option.
NewTimeout == 2
NewPoolSize == 4

\* The arguments of the options.
Timeouts == {1, 5}
PoolSizeArgs == {-1, 0, 1, 8}
AddrLists == {<<"8.8.8.8">>, <<"1.1.1.1:53", "9.9.9.9">>}

\* newUDPResolver: an address without port gets port 53.
WithPort(addr) == IF addr = "1.1.1.1:53" THEN addr ELSE addr \o ":53"

\* newUDPResolver(addr, timeout, poolSize): the resolver and its pool.
newUDPResolver(addr, t, n) ==
    [addr |-> WithPort(addr), timeout |-> t, capacity |-> PoolSizeOf(n)]

PrependResolvers(rs, new) == new \o rs

\* r.resolvers = append(r.resolvers, ...) for each address in turn.
AppendResolvers(rs, new) == rs \o new

PoolSizeOrDefault(cur, n) == IF n > 0 THEN n ELSE NewPoolSize

\* WithConnPoolSize: if size > 0 { r.poolSize = size }.
PoolSizeAfter(cur, n) == IF n > 0 THEN n ELSE cur

\* New(opts...) applies one more option.
ApplyOption(opt) ==
    /\ Len(applied) < MaxOptions
    /\ applied' = Append(applied, opt)
    /\ dialer' =
         CASE opt.name = "WithTimeout" -> [dialer EXCEPT !.timeout = opt.arg]
           [] opt.name = "WithConnPoolSize" ->
                [dialer EXCEPT !.poolSize = PoolSizeAfter(@, opt.arg)]
           [] opt.name = "WithResolvers" ->
                [dialer EXCEPT !.resolvers =
                    AppendResolvers(@,
                        [k \in DOMAIN opt.arg |->
                            newUDPResolver(opt.arg[k], dialer.timeout,
                                           dialer.poolSize)])]

WithTimeout(d) == ApplyOption([name |-> "WithTimeout", arg |-> d])

WithConnPoolSize(n) == ApplyOption([name |-> "WithConnPoolSize", arg |-> n])

WithResolvers(addrs) == ApplyOption([name |-> "WithResolvers", arg |-> addrs])

outsideOptions ==
    <<strategyVars, eqVars, poolVars, resolverVars, cacheVars, dialVars,
      aliasVars>>

\* New before its options are applied.
InitOptions ==
    /\ StrategyAtRest
    /\ EqAtRest
    /\ PoolAtRest
    /\ ResolverAtRest
    /\ CacheAtRest
    /\ DialerAtRest
    /\ AliasAtRest
    /\ dialer = [timeout |-> NewTimeout, poolSize |-> NewPoolSize,
                 resolvers |-> <<>>]
    /\ applied = <<>>

NextOptions ==
    \/ \E d \in Timeouts : WithTimeout(d) /\ UNCHANGED outsideOptions
    \/ \E n \in PoolSizeArgs : WithConnPoolSize(n) /\ UNCHANGED outsideOptions
    \/ \E addrs \in AddrLists : WithResolvers(addrs) /\ UNCHANGED outsideOptions

SpecOptions == InitOptions /\ [][NextOptions]_vars

(***************************************************************************)
(* Vocabulary of the properties.                                           *)
(***************************************************************************)

N == Len(resolvers)

\* The resolvers whose query succeeds.
Succeeded == {k \in 1..N : resolvers[k].err = NoErr}

MinOf(S) == CHOOSE x \in S : \A y \in S : x <= y

\* Multiset equality by counting: every (value, ttl-or-zero) key occurs
\* as often in a as in b.
KeyCount(a, key, ignoreTTL) ==
    Cardinality({j \in DOMAIN a :
        /\ a[j].Value = key[1]
        /\ (ignoreTTL \/ a[j].TTL = key[2])})

SameMultiset(a, b, ignoreTTL) ==
    \A key \in {<<a[j].Value, a[j].TTL>> : j \in DOMAIN a}
                 \cup {<<b[j].Value, b[j].TTL>> : j \in DOMAIN b} :
        KeyCount(a, key, ignoreTTL) = KeyCount(b, key, ignoreTTL)

\* The successful responses that agree with resolver k's.
AgreeingWith(k) ==
    {j \in Succeeded :
        SameMultiset(resolvers[j].response, resolvers[k].response,
                     strategy.IgnoreTTL)}

\* The threshold Consensus is specified to use.
Threshold ==
    IF strategy.MinAgreement <= 0 THEN (N \div 2) + 1
    ELSE strategy.MinAgreement

Done(kind) == strategy.kind = kind /\ pc = "done"

(***************************************************************************)
(* Race                                                                    *)
(***************************************************************************)

\* The positions in the send order that hold a successful resolver's result.
PostedOk == {j \in DOMAIN posted : resolvers[posted[j].resolver].err = NoErr}

\* C1: when Race over a non-empty resolver list returns without error, its
\* records are the response of the resolver whose successful result was
\* sent on the channel first, whatever its position in the resolver list.
RaceFirstPostedSuccessWins ==
    (Done("Race") /\ N >= 1 /\ ret.err = NoErr) =>
        /\ PostedOk # {}
        /\ ret.records = resolvers[posted[MinOf(PostedOk)].resolver].response

\* C1 witness: the winner is not the first successful resolver of the list
\* and its records differ from that resolver's.
RaceLaterResolverWon ==
    /\ Done("Race") /\ ret.err = NoErr
    /\ PostedOk # {}
    /\ posted[MinOf(PostedOk)].resolver > MinOf(Succeeded)
    /\ ret.records # resolvers[MinOf(Succeeded)].response

\* C2: with at least one resolver, Race returns an error exactly when every
\* resolver fails; it then returns nil records and the error of the result
\* it consumed last, which is the last one sent.
RaceErrorIffAllFail ==
    (Done("Race") /\ N >= 1) =>
        /\ (ret.err # NoErr) <=> (Succeeded = {})
        /\ (Succeeded = {}) =>
              /\ ret.records = NilRecords
              /\ Len(posted) = N
              /\ i = N
              /\ ret.err = resolvers[posted[N].resolver].err

\* C2 witness: the first result consumed was a failure and Race still
\* returned a slower resolver's records.
RaceFastFailureThenSuccess ==
    /\ Done("Race") /\ ret.err = NoErr
    /\ i >= 1
    /\ resolvers[posted[1].resolver].err # NoErr

(***************************************************************************)
(* Fallback                                                                *)
(***************************************************************************)

\* C3: Fallback queries the resolvers one at a time in list order, never
\* queries past a success, returns the first success, and when all fail
\* returns nil with the last resolver's error.
FallbackFirstSuccessInOrder ==
    (strategy.kind = "Fallback") =>
        /\ queried = [j \in 1..Len(queried) |-> j]
        /\ \A j \in 1..(Len(queried) - 1) : resolvers[queried[j]].err # NoErr
        /\ (pc = "done" /\ Succeeded # {}) =>
              /\ ret = [records |-> resolvers[MinOf(Succeeded)].response,
                        err |-> NoErr]
              /\ Len(queried) = MinOf(Succeeded)
        /\ (pc = "done" /\ Succeeded = {} /\ N >= 1) =>
              /\ ret = [records |-> NilRecords, err |-> resolvers[N].err]
              /\ Len(queried) = N

\* C3 witness: the first resolver failed, the second answered, and the
\* third was never queried.
FallbackSecondResolverAnswered ==
    /\ Done("Fallback") /\ N = 3
    /\ MinOf(Succeeded \cup {N + 1}) = 2
    /\ queried = <<1, 2>>
    /\ ret.records = resolvers[2].response

(***************************************************************************)
(* Consensus                                                               *)
(***************************************************************************)

\* Some set of pairwise multiset-equal successful responses has at least
\* Threshold members.
QuorumExists ==
    \E G \in SUBSET Succeeded :
        /\ Cardinality(G) >= Threshold
        /\ \A j, k \in G :
              SameMultiset(resolvers[j].response, resolvers[k].response,
                           strategy.IgnoreTTL)

\* The successful resolvers whose answer is shared by a quorum.
InQuorum == {k \in Succeeded : Cardinality(AgreeingWith(k)) >= Threshold}

\* C4: Consensus succeeds exactly when a quorum of pairwise equal successful
\* responses exists; it returns the earliest response of the first-created
\* qualifying group, and otherwise nil with "consensus not reached:
\* required N agreements".
ConsensusSucceedsIffQuorum ==
    Done("Consensus") =>
        /\ (ret.err = NoErr) <=> QuorumExists
        /\ QuorumExists =>
              ret.records = resolvers[MinOf(InQuorum)].response
        /\ ~QuorumExists =>
              ret = [records |-> NilRecords,
                     err |-> "consensus not reached: required "
                               \o ToString(Threshold) \o " agreements"]

\* C4 witness: two groups reach the threshold and the group of the earlier
\* resolver is returned.
ConsensusTwoGroupsQualify ==
    /\ Done("Consensus") /\ ret.err = NoErr
    /\ \E k \in InQuorum :
          ~SameMultiset(resolvers[k].response, ret.records,
                        strategy.IgnoreTTL)

\* C5: with MinAgreement <= 0 the threshold is floor(n/2)+1 over the
\* configured resolvers, so fewer than that many successes fail even when
\* they all agree.
ConsensusDefaultThreshold ==
    (strategy.kind = "Consensus" /\ strategy.MinAgreement <= 0
        /\ pc # "call") =>
        /\ minAgreement = (N \div 2) + 1
        /\ (pc = "done" /\ Cardinality(Succeeded) < (N \div 2) + 1) =>
              ret.err # NoErr

\* C5 witness: the successful responses all agree and are a majority of
\* those that responded, yet not of those configured.
ConsensusFailuresCountAgainstQuorum ==
    /\ Done("Consensus") /\ strategy.MinAgreement <= 0
    /\ Succeeded # {}
    /\ \A k \in Succeeded : AgreeingWith(k) = Succeeded
    /\ Cardinality(Succeeded) < (N \div 2) + 1
    /\ ret.err # NoErr

\* C6: whichever resolvers are compromised, if there are at most
\* Threshold-1 of them, a record set Consensus returns is multiset-equal
\* to the response of an honest resolver.
ConsensusByzantineSafe ==
    (Done("Consensus") /\ ret.err = NoErr) =>
        \A C \in SUBSET (1..N) :
            Cardinality(C) <= Threshold - 1 =>
                \E h \in Succeeded \ C :
                    SameMultiset(resolvers[h].response, ret.records,
                                 strategy.IgnoreTTL)

\* C6 witness: a resolver returned a divergent record set and Consensus
\* still returned the answer of the others.
ConsensusOutvotedDivergent ==
    /\ Done("Consensus") /\ ret.err = NoErr
    /\ Threshold >= 2
    /\ \E k \in Succeeded :
          ~SameMultiset(resolvers[k].response, ret.records,
                        strategy.IgnoreTTL)

\* F is a set of faulty resolvers: those outside F succeed with pairwise
\* equal responses, those inside fail or diverge from the others.
FaultySet(F) ==
    /\ \A h \in (1..N) \ F : h \in Succeeded /\ AgreeingWith(h) = Succeeded \ F
    /\ \A f \in F :
          f \in Succeeded => AgreeingWith(f) \cap ((1..N) \ F) = {}

\* C7: with the default threshold and at most floor((n-1)/2) faulty
\* resolvers, Consensus succeeds with the answer of the non-faulty ones:
\* the response of the earliest of them.
ConsensusToleratesMinority ==
    (Done("Consensus") /\ strategy.MinAgreement <= 0) =>
        \A F \in SUBSET (1..N) :
            (Cardinality(F) <= (N - 1) \div 2 /\ FaultySet(F)) =>
                /\ ret.err = NoErr
                /\ ret.records = resolvers[MinOf((1..N) \ F)].response

\* C7 witness: of three resolvers the first is faulty with divergent data
\* and the other two carry the vote.
ConsensusFaultyFirstResolver ==
    /\ Done("Consensus") /\ strategy.MinAgreement <= 0
    /\ N = 3
    /\ FaultySet({1}) /\ 1 \in Succeeded
    /\ ret.err = NoErr
    /\ ret.records = resolvers[2].response

\* The reorderings of the resolver list.
Reorderings ==
    {p \in [1..N -> 1..N] : \A k \in 1..N : \E j \in 1..N : p[j] = k}

Permuted(p) == [k \in 1..N |-> resolvers[p[k]]]

DistinctNames ==
    \A j, k \in Succeeded : j # k => resolvers[j].name # resolvers[k].name

\* C9: Compare returns no error and the records of the first resolver of
\* the list that succeeded, nil when none did.  Stated for resolvers with
\* distinct names, where the results map holds every successful response.
CompareReturnsFirstConfigured ==
    (Done("Compare") /\ DistinctNames) =>
        /\ ret.err = NoErr
        /\ ret.records = IF Succeeded = {} THEN NilRecords
                         ELSE resolvers[MinOf(Succeeded)].response

\* Two successful responses are not multiset-equal.
Diverging ==
    \E j, k \in Succeeded :
        ~SameMultiset(resolvers[j].response, resolvers[k].response,
                      strategy.IgnoreTTL)

\* The map holds the response of every resolver that succeeded, by name.
HoldsEverySuccess(m) ==
    /\ DOMAIN m = {resolvers[k].name : k \in Succeeded}
    /\ \A k \in Succeeded : m[resolvers[k].name] = resolvers[k].response

\* C10: with a callback set, OnDiscrepancy is invoked once when two
\* successful responses diverge and not at all otherwise, and the map it
\* receives holds the response of every resolver that succeeded.
CompareReportsDivergenceOnce ==
    (Done("Compare") /\ strategy.OnDiscrepancy) =>
        /\ Len(calls) = IF Diverging THEN 1 ELSE 0
        /\ \A c \in DOMAIN calls : HoldsEverySuccess(calls[c].results)

\* C10 restricted to resolver lists in which the resolvers that succeed
\* have pairwise distinct names: there the statement holds.
CompareReportsDivergenceOnceDistinctNames ==
    (Done("Compare") /\ strategy.OnDiscrepancy /\ DistinctNames) =>
        /\ Len(calls) = IF Diverging THEN 1 ELSE 0
        /\ \A c \in DOMAIN calls : HoldsEverySuccess(calls[c].results)

(***************************************************************************)
(* recordsEqual is multiset equality.                                      *)
(***************************************************************************)

\* C11: recordsEqual(a, b, ignoreTTL) is true exactly when a and b hold the
\* same keys with the same multiplicities, the key being (Type, Value, TTL)
\* and the TTL counted as 0 under ignoreTTL: the order of the records does
\* not matter, duplicates and length do, two empty lists are equal and an
\* empty list equals no non-empty one.
RecordsEqualIsMultisetEquality ==
    eqPc \in {"related", "done"} =>
        /\ eqResult.ab = SameMultiset(eqA, eqB, eqIgnoreTTL)
        /\ (eqA = <<>> /\ eqB = <<>>) => eqResult.ab
        /\ ((eqA = <<>>) # (eqB = <<>>)) => ~eqResult.ab
        /\ Len(eqA) # Len(eqB) => ~eqResult.ab

\* Two lists that differ in order only, TTLs compared, are found equal.
RecordsEqualReorderedLists ==
    /\ eqPc = "done"
    /\ ~eqIgnoreTTL
    /\ Len(eqA) = 2
    /\ eqA[1] # eqA[2]
    /\ eqB = <<eqA[2], eqA[1]>>
    /\ eqResult.ab

\* C12: recordsEqual is reflexive and symmetric, and under ignoreTTL its
\* result does not change when every TTL of either argument is set to 0.
RecordsEqualReflexiveSymmetricTTLBlind ==
    eqPc = "done" =>
        /\ eqResult.aa /\ eqResult.bb
        /\ eqResult.ab = eqResult.ba
        /\ eqIgnoreTTL => (eqResult.za = eqResult.ab /\ eqResult.zb = eqResult.ab)

\* Under ignoreTTL, two lists that differ in a TTL only are found equal,
\* in either argument order and with either list's TTLs zeroed.
RecordsEqualTTLOnlyDifference ==
    /\ eqPc = "done"
    /\ eqIgnoreTTL
    /\ Len(eqA) = 2
    /\ eqA # eqB
    /\ ZeroTTLs(eqA) = ZeroTTLs(eqB)
    /\ eqA # ZeroTTLs(eqA)
    /\ eqResult.ab /\ eqResult.ba /\ eqResult.za /\ eqResult.zb

(***************************************************************************)
(* The connection pool.                                                    *)
(***************************************************************************)

\* The connections no caller holds.
Unheld == {c \in ConnIds : \A p \in Callers : held[p] # c}

\* The callers whose last pool call was op and has returned or panicked.
Finished(op) ==
    {p \in Callers : outcome[p].op = op /\ outcome[p].result # "pending"}

\* The queue never holds more connections than the pool's size.
PoolIdleBounded == Len(conns) <= size

\* C13: under every interleaving of Get, Put and Close the queue holds at
\* most size connections, and a Put that finds the queue full closes its
\* connection: it neither queues it, nor blocks, nor fails.
PoolIdleBoundedAndFullPutCloses ==
    /\ PoolIdleBounded
    /\ \A p \in Finished("put") :
          outcome[p].full =>
              /\ outcome[p].result = "closed"
              /\ connState[outcome[p].conn] = "closed"

\* C14: a Put that interleaves with a Close never panics by sending on the
\* closed queue; once Close has returned the queue of the closed pool is
\* empty, and every connection that was given to a Put and is in no
\* caller's hands has been closed, by Put or by Close.
PutInterleavedWithCloseIsSafe ==
    /\ ~panicked
    /\ closeReturned => conns = <<>>
    /\ closeReturned =>
          \A p \in Finished("put") :
              outcome[p].conn \in Unheld =>
                  connState[outcome[p].conn] = "closed"

\* C15: once a Close that closed the pool has returned, the pool is
\* closed, its queue is drained and every connection outside the callers'
\* hands is closed; a Close that starts after that returns nil at once, a
\* Get that starts after that returns the closed error without a
\* connection, and a Put that starts after that closes its connection.
CloseIdempotentAndFinal ==
    /\ closeReturned =>
          /\ closed /\ chanClosed /\ conns = <<>>
          /\ \A c \in Unheld : connState[c] # "open"
    /\ \A p \in Callers :
          outcome[p].afterClose =>
              /\ outcome[p].op = "close" => outcome[p].result = "nil"
              /\ outcome[p].op = "get" =>
                    outcome[p].result = "ErrClosed" /\ held[p] = 0
              /\ (outcome[p].op = "put" /\ outcome[p].conn # 0) =>
                    /\ outcome[p].result = "closed"
                    /\ connState[outcome[p].conn] = "closed"

\* After a Close that drained and closed a queued connection, one caller
\* called Close again and another gave back a connection it still held.
CloseThenSecondCloseAndPut ==
    /\ closeReturned
    /\ \E p, q \in Callers :
          /\ outcome[p].op = "put" /\ outcome[p].afterClose
          /\ outcome[p].conn # 0
          /\ outcome[q].op = "close" /\ outcome[q].afterClose
          /\ \E c \in ConnIds \ {outcome[p].conn} : connState[c] = "closed"

(***************************************************************************)
(* The UDP resolver.                                                       *)
(***************************************************************************)

\* The queries that have returned.
Returned == {p \in Callers : query[p].pc = "done"}

\* The queries that returned after a response was read.
Answered == {p \in Returned : query[p].readEnd = "response"}

\* The connections in the pool's queue.
Queued == {conns[k] : k \in DOMAIN conns}

PastSetDeadline ==
    {p \in Callers :
        \/ query[p].pc \in {"write", "read", "put", "parse"}
        \/ /\ query[p].pc = "done"
           /\ query[p].ret.err # "failed to get connection"}

CancelledReadDoesNotWaitForDeadline ==
    \A p \in Callers :
        (query[p].readEnd = "deadline" /\ query[p].cancelAt # NotCancelled) =>
            query[p].cancelAt >= query[p].deadline

\* C19: ResolveType succeeds only with at least one record; a response
\* whose RCODE is not success gives the error naming the RCODE; a success
\* RCODE with an empty answer section gives "no records found"; in both
\* cases the connection has been given to Put, which queued it: it is in
\* the pool and was not closed.
ResolverErrorsLeaveConnPooledAndOpen ==
    /\ \A p \in Returned :
          query[p].ret.err = NoErr => Len(query[p].ret.records) >= 1
    /\ \A p \in Answered :
          /\ query[p].response.rcode = "SERVFAIL" =>
                query[p].ret.err = "dns error: SERVFAIL"
          /\ (query[p].response.rcode = "NOERROR" /\
                 query[p].response.answer = <<>>) =>
                query[p].ret.err = "no records found"
          /\ query[p].ret.err # NoErr =>
                /\ query[p].released = <<"put">>
                /\ outcome[p].op = "put"
                /\ outcome[p].result = "queued"

\* C19, amended: as C19, but in both cases the connection has been given
\* to Put and was not closed by the resolver; Put queued it, or closed it
\* because the queue was full.
ResolverErrorsLeaveConnToPut ==
    /\ \A p \in Returned :
          query[p].ret.err = NoErr => Len(query[p].ret.records) >= 1
    /\ \A p \in Answered :
          /\ query[p].response.rcode = "SERVFAIL" =>
                query[p].ret.err = "dns error: SERVFAIL"
          /\ (query[p].response.rcode = "NOERROR" /\
                 query[p].response.answer = <<>>) =>
                query[p].ret.err = "no records found"
          /\ query[p].ret.err # NoErr =>
                /\ query[p].released = <<"put">>
                /\ outcome[p].op = "put"
                /\ \/ outcome[p].result = "queued"
                   \/ outcome[p].result = "closed" /\ outcome[p].full

\* A query got an empty answer and returned "no records found" after Put
\* closed its connection on a full queue, which another query's connection,
\* returned before a SERVFAIL error, had filled.
ResolverNoRecordsAfterPutClosed ==
    \E p, q \in Answered :
        /\ query[p].ret.err = "no records found"
        /\ outcome[p].result = "closed"
        /\ connState[outcome[p].conn] = "closed"
        /\ query[q].ret.err = "dns error: SERVFAIL"
        /\ outcome[q].result = "queued"

(***************************************************************************)
(* The IP cache.                                                           *)
(***************************************************************************)

\* C20: every non-nil return of getIPs comes from an entry whose expiresAt
\* is strictly later than the instant of the read; an entry whose
\* expiresAt is at or before that instant is reported as a miss.
CacheHitOnlyStrictlyBeforeExpiry ==
    /\ got.ips # NilIPs => (got.found /\ got.expiresAt > got.at)
    /\ (got.found /\ got.expiresAt <= got.at) => got.ips = NilIPs

\* C20, amended: every non-nil return of getIPs comes from an entry whose
\* expiresAt is not earlier than the instant of the read; an entry whose
\* expiresAt is earlier than that instant is reported as a miss, and one
\* read at the very instant of its expiry is still a hit.
CacheHitUntilExpiryInclusive ==
    /\ got.ips # NilIPs => (got.found /\ got.expiresAt >= got.at)
    /\ (got.found /\ got.expiresAt < got.at) => got.ips = NilIPs
    /\ (got.found /\ got.expiresAt = got.at) => got.ips # NilIPs

\* An entry stored with a positive TTL is read at the instant of its expiry
\* and returned.
CacheHitAtExpiryInstant ==
    /\ got.found
    /\ minTTL > 0 /\ maxTTL > 0
    /\ got.expiresAt = got.at
    /\ got.ips # NilIPs

\* The lifetime an entry was stored with, and the TTL argument of its
\* write brought into the configured bounds, lower bound first.
Lifetime(e) == e.expiresAt - e.at

Bounded(ttl) ==
    LET atLeast == IF ttl < minTTL THEN minTTL ELSE ttl
    IN  IF atLeast > maxTTL THEN maxTTL ELSE atLeast

CacheEntries == {ipCache[k] : k \in DOMAIN ipCache}

\* C21: for every setIPs call, whatever its ttl argument and whatever the
\* configured minTTL and maxTTL, the stored entry's expiresAt minus the
\* write time is at least minTTL and at most maxTTL.
CachedTTLWithinBoundsAlways ==
    \A e \in CacheEntries : minTTL <= Lifetime(e) /\ Lifetime(e) <= maxTTL

\* C21, amended: the stored entry's expiresAt minus the write time is at
\* most maxTTL; it is at least minTTL when minTTL does not exceed maxTTL,
\* and it is exactly maxTTL when minTTL exceeds maxTTL.
CachedTTLWithinBoundsWhenOrdered ==
    \A e \in CacheEntries :
        /\ Lifetime(e) <= maxTTL
        /\ minTTL <= maxTTL => minTTL <= Lifetime(e)
        /\ minTTL > maxTTL => Lifetime(e) = maxTTL

\* A cache configured with minTTL above maxTTL holds an entry, whose
\* lifetime is maxTTL and so below minTTL.
CachedTTLBelowMinTTL ==
    \E e \in CacheEntries :
        minTTL > maxTTL /\ Lifetime(e) = maxTTL /\ Lifetime(e) < minTTL

\* C22: on an enabled cache, getIPs of a host whose last write is still
\* held returns the written list while fewer than the clamped TTL seconds
\* have elapsed since the write, and nil once that time has elapsed.
RoundTripOnlyBeforeClampedTTL ==
    got.entry # <<>> =>
        LET elapsed == got.at - got.entry.at
            clamped == Bounded(got.entry.ttl)
        IN  /\ elapsed < clamped => got.ips = got.entry.ips
            /\ elapsed >= clamped => got.ips = NilIPs

\* C22, amended: getIPs of a host whose last write is still held returns
\* the written list while no more than the clamped TTL seconds have
\* elapsed since the write, and nil once more than that have elapsed.
RoundTripUntilClampedTTLInclusive ==
    got.entry # <<>> =>
        LET elapsed == got.at - got.entry.at
            clamped == Bounded(got.entry.ttl)
        IN  /\ got.entry.host = got.host
            /\ got.entry.ips # NilIPs
            /\ elapsed <= clamped => got.ips = got.entry.ips
            /\ elapsed > clamped => got.ips = NilIPs

\* A write whose TTL was raised to minTTL is read back after exactly
\* minTTL seconds and its list is returned.
RoundTripAtClampedTTL ==
    /\ got.entry # <<>>
    /\ got.entry.ttl < minTTL /\ minTTL <= maxTTL
    /\ got.at - got.entry.at = minTTL
    /\ got.ips = got.entry.ips /\ got.ips # NilIPs

\* C24: a cache constructed with size <= 0 is disabled: it never holds an
\* entry and every getIPs returns nil, whatever setIPs calls were made; a
\* setIPs call on a disabled cache, and one with an empty list on an
\* enabled cache, changes nothing of the cache, so an enabled cache never
\* holds an empty list and keeps the entry it had for that host.
DisabledCacheAndEmptyListWriteNothing ==
    /\ [](/\ enabled <=> cacheSize > 0
          /\ ~enabled => ipCache = <<>> /\ ~got.found /\ got.ips = NilIPs
          /\ \A e \in CacheEntries : e.ips # <<>>)
    /\ [][\A h \in CacheHosts, t \in 0..MaxTTL :
            /\ setIPs(h, <<>>, t) => UNCHANGED cacheVars
            /\ \A ips \in IPLists :
                 ~enabled /\ setIPs(h, ips, t) => UNCHANGED cacheVars]_vars

\* A disabled cache was asked for a host and returned nil.
DisabledCacheRead ==
    /\ ~enabled /\ cacheSize = 0
    /\ got.host \in CacheHosts
    /\ got.ips = NilIPs

(***************************************************************************)
(* The Dialer.                                                             *)
(***************************************************************************)

\* The texts that are IP addresses, and the addresses by family.
IPTexts ==
    {"10.0.0.1", "10.0.0.2", "::ffff:10.0.0.3", "2001:db8::1", "2001:db8::2"}

IPv4Addrs == {"10.0.0.1", "10.0.0.2", "10.0.0.3"}
IPv6Addrs == {"2001:db8::1", "2001:db8::2"}

\* lookup has returned to lookupIPs in the current call.
LookedUp ==
    /\ Len(look.results) = 2
    /\ look.pending = {}
    /\ dial.pc \in {"filter", "connect", "done"}

\* The records of the response whose addresses lookupIPs extracts.
Extracted ==
    {k \in DOMAIN look.allRecords :
        /\ look.allRecords[k].Type \in {"A", "AAAA"}
        /\ look.allRecords[k].Value \in IPTexts}

\* The entries the cache held when the current call began.
EntriesBefore == {dial.before[k] : k \in DOMAIN dial.before}

\* The elements of a list that belong to a set, in the list's order.
RECURSIVE Keep(_, _)
Keep(list, S) ==
    IF list = <<>> THEN <<>>
    ELSE (IF Head(list) \in S THEN <<Head(list)>> ELSE <<>>)
             \o Keep(Tail(list), S)

\* C23: the lifetime of the entry that lookupIPs writes for a host equals
\* the minimum TTL over the A/AAAA records whose addresses were extracted,
\* clamped to [minTTL, maxTTL], for every combination of record TTLs,
\* TTLs all above 300 seconds included.
EntryLifetimeIsMinRecordTTL ==
    (LookedUp /\ dial.setCalls > 0) =>
        \A e \in CacheEntries :
            e.host = dial.host =>
                Lifetime(e) =
                    Bounded(MinOf({look.allRecords[k].TTL : k \in Extracted}))

\* C26: lookup returns the records of the strategy calls that succeeded,
\* one call per query type, in the order the calls returned, and nothing
\* for a call that failed; lookupIPs fails with "no IP addresses found"
\* exactly when no A/AAAA record value of them parses as an IP, so never
\* with the error of a strategy call.
LookupBestEffort ==
    /\ LookedUp =>
         /\ {look.results[k].qtype : k \in 1..2} = QueryTypes
         /\ look.allRecords =
              (IF look.results[1].err = NoErr THEN look.results[1].records
               ELSE <<>>)
              \o (IF look.results[2].err = NoErr THEN look.results[2].records
                  ELSE <<>>)
         /\ (dial.err = "DNS lookup failed: no IP addresses found")
              <=> (Extracted = {})
         /\ dial.err \notin ResolverErrs
    /\ dial.err = "DNS lookup failed: no IP addresses found" => LookedUp

\* The strategy call that returned first failed, the other one succeeded,
\* and a connection to one of its addresses was made.
LookupSurvivesOneFailure ==
    /\ LookedUp
    /\ look.results[1].err # NoErr
    /\ look.results[2].err = NoErr
    /\ look.allRecords = look.results[2].records
    /\ dial.conn # ""

\* C27: on a live cache hit lookupIPs returns the cached addresses, calls
\* no strategy and does not write the cache, whose entry for the host
\* stays the one it was; the strategy is called only after a read of the
\* cache that found no entry or an expired one.
CacheHitSkipsStrategy ==
    /\ dial.cached # NilIPs =>
         /\ dial.strategyCalls = 0
         /\ dial.setCalls = 0
         /\ look = NoLookup
         /\ dial.ips = dial.cached
         /\ \A e \in CacheEntries : e.host = dial.host => e \in EntriesBefore
    /\ dial.strategyCalls > 0 =>
         /\ dial.cached = NilIPs
         /\ got.host = dial.host
         /\ ~got.found \/ got.expiresAt < got.at

\* A call served from the cache has connected.
DialServedFromCache ==
    /\ dial.pc = "done"
    /\ dial.cached # NilIPs
    /\ dial.strategyCalls = 0
    /\ dial.conn # ""

\* C28: the cache is written only by a lookupIPs call that extracted at
\* least one address, and never holds an empty list; when lookupIPs
\* returns an error it has not called setIPs and the cache holds no entry
\* it did not hold before, so the next lookupIPs for that host misses the
\* cache and calls the strategy again.
NoNegativeCaching ==
    /\ dial.setCalls > 0 => (LookedUp /\ dial.ips # <<>> /\ Extracted # {})
    /\ \A e \in CacheEntries : e.ips # <<>>
    /\ dial.err = "DNS lookup failed: no IP addresses found" =>
         /\ dial.setCalls = 0
         /\ CacheEntries \subseteq EntriesBefore
    /\ (dial.failedHost # "" /\ dial.failedHost = dial.host
            /\ dial.pc # "lookupIPs") =>
         /\ dial.cached = NilIPs
         /\ dial.strategyCalls = Cardinality(QueryTypes)

\* After a lookup that found no address, the next call for the same host
\* on an enabled cache has queried again and connected.
FailedLookupIsRetried ==
    /\ enabled
    /\ dial.failedHost = dial.host
    /\ dial.host # ""
    /\ dial.strategyCalls > 0
    /\ dial.conn # ""

CandidatesByFamily ==
    (dial.pc \in {"connect", "done"} /\ dial.ips # <<>>) =>
        LET ipv4 == Keep(dial.ips, IPv4Addrs)
            ipv6 == Keep(dial.ips, IPv6Addrs)
            candidates ==
                CASE dial.network \in {"tcp4", "udp4"} -> ipv4
                  [] dial.network \in {"tcp6", "udp6"} -> ipv6
                  [] OTHER -> ipv4 \o ipv6
        IN  /\ dial.filteredIPs = candidates
            /\ (dial.err = "no suitable IP addresses found")
                 <=> (candidates = <<>> /\ dial.pc = "done")
            /\ dial.network \in {"tcp", "udp"} =>
                 Len(candidates) = Len(dial.ips)
            /\ Len(dial.dialed) <= Len(candidates)
            /\ \A k \in DOMAIN dial.dialed :
                 dial.dialed[k] \in
                    {candidates[k] \o ":" \o dial.port,
                     "[" \o candidates[k] \o "]:" \o dial.port}

\* The resolved list begins with an IPv6 address and holds an IPv4
\* address: for "tcp" the candidates begin with the IPv4 address.
CandidatesPutIPv4First ==
    /\ dial.pc = "connect"
    /\ dial.network = "tcp"
    /\ Len(dial.ips) >= 2
    /\ dial.ips[1] \in IPv6Addrs
    /\ dial.filteredIPs[1] \in IPv4Addrs
    /\ Len(dial.filteredIPs) = Len(dial.ips)

\* C25: no list held by a caller is the array the cache entry refers
\* to, and whatever elements callers overwrite in the lists returned to
\* them by getIPs or by the lookupIPs call that wrote the entry, a later
\* cache hit returns the addresses that call extracted.
CallersCannotMutateCache ==
    /\ entryList \notin callerLists
    /\ lastHit # <<>> => lastHit.ips = lastHit.written

\* C31: DialContext dials the candidates one after the other in list
\* order; the first that connects is returned and none after it is
\* dialed; when all have failed the error names the host and wraps the
\* error of the last candidate; with no candidate the error is "no
\* suitable IP addresses found" and nothing is dialed.
DialsCandidatesInOrder ==
    (dial.host \in CacheHosts /\ dial.pc \in {"connect", "done"}) =>
        LET n == Len(dial.dialed)
            addrOf(k) ==
                IF dial.filteredIPs[k] \in IPv6Addrs
                THEN "[" \o dial.filteredIPs[k] \o "]:443"
                ELSE dial.filteredIPs[k] \o ":443"
        IN  /\ n <= Len(dial.filteredIPs)
            /\ \A k \in 1..n : dial.dialed[k] = addrOf(k)
            /\ dial.conn # "" => (dial.pc = "done" /\ dial.conn = dial.dialed[n]
                                    /\ dial.err = NoErr)
            /\ (dial.pc = "done" /\ dial.conn = "" /\ dial.filteredIPs # <<>>)
                 => /\ n = Len(dial.filteredIPs)
                    /\ dial.err = "failed to connect to a.example: dial "
                                    \o addrOf(n) \o ": connection refused"
            /\ dial.pc = "connect" => (dial.conn = "" /\ dial.err = NoErr)
            /\ dial.err = "no suitable IP addresses found" => n = 0

\* Three candidates: the first two failed, the third connected.
DialThirdCandidateConnects ==
    /\ dial.pc = "done"
    /\ Len(dial.filteredIPs) = 3
    /\ Len(dial.dialed) = 3
    /\ dial.conn = dial.dialed[3]

(***************************************************************************)
(* New and its options.                                                    *)
(***************************************************************************)

\* The positions of the log before position n that hold an option of the
\* given name accepted by the test, and the argument of the last of them,
\* or a default when there is none.
LastArg(name, n, Accepts(_), default) ==
    LET at == {j \in 1..(n - 1) :
                  applied[j].name = name /\ Accepts(applied[j].arg)}
    IN  IF at = {} THEN default
        ELSE applied[CHOOSE j \in at : \A h \in at : h <= j].arg

\* The resolvers in the order of creation, each with the position in the
\* log of the WithResolvers that created it and its address as given.
RECURSIVE Created(_)
Created(n) ==
    IF n = 0 THEN <<>>
    ELSE Created(n - 1) \o
           (IF applied[n].name = "WithResolvers"
            THEN [k \in DOMAIN applied[n].arg |->
                    [at |-> n, addr |-> applied[n].arg[k]]]
            ELSE <<>>)

AfterNonPositiveSize ==
    LET made == Created(Len(applied))
    IN  {k \in DOMAIN made :
           LastArg("WithConnPoolSize", made[k].at, LAMBDA n : TRUE, 1) <= 0}

\* C33 as stated: resolvers created after a WithConnPoolSize(n), n <= 0,
\* have idle capacity 4, and newConnPool with size <= 0 has capacity 4.
NonPositivePoolSizeMeansFour ==
    /\ \A k \in AfterNonPositiveSize : dialer.resolvers[k].capacity = 4
    /\ \A n \in -1..0 : PoolSizeOf(n) = 4

\* C33 amended: WithConnPoolSize(n), n <= 0, leaves the pool size as it
\* was, so resolvers created after it have the capacity of the last
\* positive size configured before them, and 4 only when there was none;
\* newConnPool with size <= 0 has capacity 4.
NonPositivePoolSizeIsIgnored ==
    /\ \A k \in AfterNonPositiveSize :
         dialer.resolvers[k].capacity =
           LastArg("WithConnPoolSize", Created(Len(applied))[k].at,
                   LAMBDA n : n > 0, 4)
    /\ \A n \in -1..0 : PoolSizeOf(n) = 4

\* WithConnPoolSize(8), WithConnPoolSize(n) with n <= 0, WithResolvers:
\* the resolver has capacity 8.
ResolverAfterIgnoredPoolSize ==
    /\ Len(applied) = 3
    /\ applied[1] = [name |-> "WithConnPoolSize", arg |-> 8]
    /\ applied[2].name = "WithConnPoolSize"
    /\ applied[2].arg <= 0
    /\ applied[3].name = "WithResolvers"
    /\ dialer.resolvers[1].capacity = 8

(***************************************************************************)
(* Race: tasks and the result channel.                                     *)
(***************************************************************************)

\* The steps of Race.ResolveType and of its goroutines.
RaceStep ==
    \/ RaceCall
    \/ \E k \in DOMAIN tasks : RaceTaskPost(k)
    \/ RaceReceive
    \/ RaceReturn

\* The resolvers whose result has been sent, one per send.
PostedBy == [j \in DOMAIN posted |-> posted[j].resolver]

\* C34: once Race has started its goroutines there is exactly one per
\* resolver; each sends at most one result and has sent exactly one when it
\* has ended; the channel never holds more results than there are
\* resolvers and a goroutine that has yet to send always finds room, also
\* after Race has returned; and when no step is possible any more, Race
\* has returned and every goroutine has ended.
RaceTasksPostOnceAndEnd ==
    (strategy.kind = "Race" /\ pc # "call") =>
        /\ DOMAIN tasks = DOMAIN resolvers
        /\ \A j, k \in DOMAIN posted : PostedBy[j] = PostedBy[k] => j = k
        /\ \A k \in DOMAIN tasks :
             tasks[k] = "done" <=> \E j \in DOMAIN posted : PostedBy[j] = k
        /\ Len(results) <= Len(resolvers)
        /\ (\E k \in DOMAIN tasks : tasks[k] = "running") =>
              Len(results) < Len(resolvers)
        /\ ~ENABLED RaceStep =>
              /\ pc = "done"
              /\ \A k \in DOMAIN tasks : tasks[k] = "done"

\* Race returned the first result of three resolvers, and the other two
\* goroutines sent theirs afterwards: both results sit in the channel.
RaceLateTasksPosted ==
    /\ strategy.kind = "Race"
    /\ pc = "done"
    /\ Len(resolvers) = 3
    /\ ret.err = NoErr
    /\ Len(results) = 2
    /\ \A k \in DOMAIN tasks : tasks[k] = "done"

(***************************************************************************)
(* The sequential strategies: order and number of the queries.             *)
(***************************************************************************)

Sequential == {"Fallback", "Consensus", "Compare"}

\* C35: Fallback, Consensus and Compare start no goroutine, so a query is
\* issued only after the one before has returned; the resolvers queried so
\* far are the first ones of the list, in configured order, each once; and
\* when Consensus or Compare has returned, every resolver has been queried
\* exactly once.
SequentialQueriesInConfiguredOrder ==
    strategy.kind \in Sequential =>
        /\ tasks = <<>>
        /\ Len(queried) <= Len(resolvers)
        /\ \A j \in DOMAIN queried : queried[j] = j
        /\ (pc = "done" /\ strategy.kind # "Fallback") =>
              Len(queried) = Len(resolvers)

\* Consensus with threshold 1 went on to query the second and the third
\* resolver after the first had answered, and returned the first answer.
ConsensusQueriedAfterQuorum ==
    /\ strategy.kind = "Consensus"
    /\ pc = "done"
    /\ minAgreement = 1
    /\ Len(resolvers) = 3
    /\ resolvers[1].err = NoErr
    /\ queried = <<1, 2, 3>>
    /\ ret.err = NoErr

(***************************************************************************)
(* Consensus: the groups partition the successful responses.               *)
(***************************************************************************)

\* The resolvers queried so far whose query succeeded.
QueriedOk == {k \in Succeeded : \E j \in DOMAIN queried : queried[j] = k}

RECURSIVE SumCounts(_)
SumCounts(gs) == IF gs = <<>> THEN 0 ELSE Head(gs).count + SumCounts(Tail(gs))

\* The groups whose representative equals resolver k's response.
GroupsOf(k) ==
    {g \in DOMAIN groups :
        recordsEqual(groups[g].records, resolvers[k].response,
                     strategy.IgnoreTTL)}

\* C36: recordsEqual is transitive on the responses of the resolvers, and
\* at every point of Consensus's query loop and after it the group
\* representatives are pairwise non-equal, every successful response
\* received so far equals the representative of exactly one group, each
\* group's count is the number of those responses that equal its
\* representative, and the counts add up to the number of resolvers that
\* have succeeded.
ConsensusGroupsPartitionResponses ==
    strategy.kind = "Consensus" =>
        /\ \A j, k, l \in Succeeded :
             /\ recordsEqual(resolvers[j].response, resolvers[k].response,
                             strategy.IgnoreTTL)
             /\ recordsEqual(resolvers[k].response, resolvers[l].response,
                             strategy.IgnoreTTL)
             => recordsEqual(resolvers[j].response, resolvers[l].response,
                             strategy.IgnoreTTL)
        /\ \A g, h \in DOMAIN groups :
             recordsEqual(groups[g].records, groups[h].records,
                          strategy.IgnoreTTL) => g = h
        /\ \A k \in QueriedOk : Cardinality(GroupsOf(k)) = 1
        /\ \A g \in DOMAIN groups :
             groups[g].count = Cardinality({k \in QueriedOk : g \in GroupsOf(k)})
        /\ SumCounts(groups) = Cardinality(QueriedOk)

\* Three resolvers answered; the first and the third agree up to order and
\* the second differs: two groups, of two and of one.
ConsensusTwoGroupsOfThree ==
    /\ strategy.kind = "Consensus"
    /\ pc = "done"
    /\ Cardinality(Succeeded) = 3
    /\ Len(groups) = 2
    /\ groups[1].count = 2
    /\ groups[2].count = 1
    /\ resolvers[1].response # resolvers[3].response

(***************************************************************************)
(* A nil error comes with records.                                         *)
(***************************************************************************)

\* C37: for Race, Fallback and Consensus and every resolver list, the
\* empty one included, a strategy that returns a nil error returns a
\* non-empty record list (every resolver answers with an error or with a
\* non-empty list).
NilErrorMeansRecords ==
    (/\ strategy.kind \in {"Race", "Fallback", "Consensus"}
     /\ pc = "done"
     /\ ret.err = NoErr)
    => Len(ret.records) > 0

(***************************************************************************)
(* The pool: who owns a connection.                                        *)
(***************************************************************************)

\* The places a connection is in: once per position of the idle queue,
\* once per caller holding it, once if it is closed.
Places(c) ==
    Cardinality({j \in DOMAIN conns : conns[j] = c})
      + Cardinality({p \in Callers : held[p] = c})
      + (IF connState[c] = "closed" THEN 1 ELSE 0)

\* C38: every connection that exists is in exactly one place: at one
\* position of the idle queue, held by one caller, or closed; so the
\* connection a Get has handed to a caller is open and held by nobody
\* else.
PoolExclusiveOwnership ==
    /\ \A c \in ConnIds : connState[c] # "unborn" => Places(c) = 1
    /\ \A p \in Callers :
         held[p] # 0 =>
           /\ connState[held[p]] = "open"
           /\ \A q \in Callers \ {p} : held[q] # held[p]

\* A caller got from the queue the connection another caller had put
\* there, while that caller holds a connection of its own.
PoolReusedWhileOtherHolds ==
    \E p, q \in Callers :
        /\ p # q
        /\ outcome[p].op = "get"
        /\ outcome[p].result = "reused"
        /\ held[p] = outcome[p].conn
        /\ held[q] # 0
        /\ connState[held[q]] = "open"

(***************************************************************************)
(* The resolver: a pooled connection has no query outstanding.             *)
(***************************************************************************)

FailedResults ==
    {k \in DOMAIN look.results : look.results[k].err # NoErr}

\* The addresses of the A and AAAA records of a record list, as texts.
AddrTexts(records) ==
    {records[k].Value : k \in {j \in DOMAIN records :
        records[j].Type \in {"A", "AAAA"} /\ records[j].Value \in IPTexts}}

\* The one result of the current lookup that succeeded.
Survivor ==
    look.results[CHOOSE k \in DOMAIN look.results : k \notin FailedResults]

\* lookupIPs has returned from a lookup of which one query type failed
\* while the other gave at least one address, on an enabled cache.
PartialLookupStored ==
    /\ LookedUp
    /\ enabled
    /\ Cardinality(FailedResults) = 1
    /\ AddrTexts(Survivor.records) # {}

\* The networks restricted to the family of a query type.
RestrictedTo(qt) ==
    IF qt = "A" THEN {"tcp4", "udp4"} ELSE {"tcp6", "udp6"}

\* The elements of a list as a set.
Elems(list) == {list[k] : k \in DOMAIN list}

\* A call that a live cache entry served and that has returned.
ServedFromCache ==
    /\ dial.pc = "done"
    /\ dial.cached # NilIPs

\* C40 as stated: a lookup of which one query type failed writes the
\* addresses of the other to the cache, once, and a later call served from
\* that entry queries no resolver and, on a network restricted to the
\* family of the type that failed, ends with "no suitable IP addresses
\* found".
PartialEntryFailsMissingFamily ==
    /\ PartialLookupStored =>
         /\ dial.setCalls = 1
         /\ dial.err # "DNS lookup failed: no IP addresses found"
         /\ Len(dial.ips) = Len(Keep([k \in DOMAIN Survivor.records |->
                                        Survivor.records[k].Value], IPTexts))
    /\ (ServedFromCache /\ dial.missing # "") =>
         /\ dial.strategyCalls = 0
         /\ dial.network \in RestrictedTo(dial.missing) =>
              dial.err = "no suitable IP addresses found"

\* C40 amended: the family of a cached address is that of the address,
\* not of the record type it came in (an AAAA record may carry an
\* IPv4-mapped address, which is an IPv4 candidate).  A lookup of which
\* one query type failed writes the addresses of the other to the cache,
\* once; a later call served from that entry queries no resolver, and on a
\* network restricted to one family it ends with "no suitable IP addresses
\* found", dialing nothing, exactly when the entry holds no address of
\* that family.
PartialEntryFailsFamilyItLacks ==
    /\ PartialLookupStored =>
         /\ dial.setCalls = 1
         /\ dial.err # "DNS lookup failed: no IP addresses found"
         /\ Len(dial.ips) = Len(Keep([k \in DOMAIN Survivor.records |->
                                        Survivor.records[k].Value], IPTexts))
    /\ (ServedFromCache /\ dial.missing # "") =>
         /\ dial.strategyCalls = 0
         /\ dial.network \in {"tcp4", "udp4"} =>
              ((dial.err = "no suitable IP addresses found" /\
                    dial.dialed = <<>>)
                 <=> Elems(dial.cached) \cap IPv4Addrs = {})
         /\ dial.network \in {"tcp6", "udp6"} =>
              ((dial.err = "no suitable IP addresses found" /\
                    dial.dialed = <<>>)
                 <=> Elems(dial.cached) \cap IPv6Addrs = {})

\* The A query had failed when the entry was written; a udp4 or tcp4 call
\* served from the entry found only IPv6 addresses and failed without a
\* query.
DialMissingFamilyFromCache ==
    /\ ServedFromCache
    /\ dial.missing = "A"
    /\ dial.network \in {"tcp4", "udp4"}
    /\ Elems(dial.cached) \subseteq IPv6Addrs
    /\ dial.err = "no suitable IP addresses found"
    /\ dial.strategyCalls = 0

====
